---- MODULE Spec2Model ----
(***************************************************************************)
(* The Local Store of TradeNote: the LocalDatabase class that wraps the    *)
(* embedded SQLite engine.  The repository holds two copies of the class:  *)
(*   Lib : src/src/lib/localDatabase.ts                                    *)
(*   Ext : the copy with logging, indexes and deleteUser, lines 798-1668   *)
(*         of src/src/pages/AIStrategyBuilder.tsx                          *)
(* The variable impl says which copy a behaviour runs; every action is     *)
(* translated from both and branches on impl where they differ.            *)
(*                                                                         *)
(* Encoding of JavaScript values.  An optional value is a sequence: <<>>   *)
(* is undefined or null (both are falsy and both are bound as SQL NULL),   *)
(* <<v>> is the value v.  Date strings are ISO strings, compared by the    *)
(* engine as text; they are modelled by naturals in the same order, 0      *)
(* being the empty string.  JSON text is a string built as                 *)
(* JSON.stringify builds it.  What a composite field holds at run time is  *)
(* a record of its kind (array, object, string, null) and its content, so  *)
(* that encoded text passed where a list is expected can be told apart.    *)
(*                                                                         *)
(* Around the store the module holds the pages that write trades           *)
(* (TradeDetails.saveTrade, LiveTrades.closeTrade), the market data        *)
(* service (RealDataService: cache and rate gate, time in milliseconds)    *)
(* and the user context (userReducer and the UserProvider that loads the   *)
(* saved user, signs users up and logs them out), which calls the store.   *)
(* A call that awaits is one action per stretch between two awaits.        *)
(***************************************************************************)
EXTENDS Integers, Sequences, FiniteSets, TLC

\* ---------------------------------------------------------------- bounds
\* crypto.randomUUID() is called at most MaxUuid times in a behaviour
MaxUuid == 2
\* sqlite.createConnection is called at most MaxConnCalls times
MaxConnCalls == 2
\* how many times over a composite is encoded in a stored JSON text
MaxNesting == 1
\* a provider is sent at most MaxRequests requests in a behaviour
MaxRequests == 3

\* ------------------------------------------------------- the two copies
Lib == "lib"
Ext == "ext"
Impls == {Lib, Ext}

\* the UI components that call initialize() when they mount
Callers == {"UserProvider", "Dashboard"}

\* ------------------------------------------------------ JavaScript values
Absent == <<>>
Some(v) == <<v>>

\* What a field that holds a composite may hold at run time: an array, an
\* object, or a string where encoded text is passed for the composite.
Arr(list) == [kind |-> "array", v |-> list]
Obj(object) == [kind |-> "object", v |-> object]
Str(text) == [kind |-> "string", v |-> text]
Null == [kind |-> "null", v |-> <<>>]

\* truthiness of an optional number (0 is falsy), string ('' is falsy) and
\* composite (every array is truthy, a string unless it is empty)
TruthyNum(x) == x # Absent /\ x[1] # 0
TruthyStr(x) == x # Absent /\ x[1] # ""
TruthyArr(x) ==
    x # Absent /\ x[1].kind # "null" /\ ~ (x[1].kind = "string" /\ x[1].v = "")

\* `x || null` on an optional number / string: the bound SQL parameter
OrNullNum(x) == IF TruthyNum(x) THEN x ELSE Absent
OrNullStr(x) == IF TruthyStr(x) THEN x ELSE Absent

\* the id the (n+1)-th call of crypto.randomUUID() returns: all different,
\* and different from every id a caller supplies
randomUUID(n) == "uuid-" \o ToString(n + 1)

\* JSON.stringify of a list of strings
RECURSIVE JoinQuoted(_)
JoinQuoted(list) ==
    IF list = <<>> THEN ""
    ELSE "\"" \o Head(list) \o "\""
         \o (IF Tail(list) = <<>> THEN "" ELSE ",") \o JoinQuoted(Tail(list))
JSONstringifyList(list) == "[" \o JoinQuoted(list) \o "]"

TagLists == {<<>>, <<"swing">>, <<"swing", "fx">>}
\* JSON.parse of a text JSON.stringify wrote
JSONparseList(text) == CHOOSE l \in TagLists : JSONstringifyList(l) = text

\* JSON.stringify of a preferences object
JSONstringifyPrefs(p) ==
    "{\"theme\":\"" \o p.theme \o "\",\"notifications\":"
    \o (IF p.notifications THEN "true" ELSE "false")
    \o ",\"defaultCurrency\":\"" \o p.defaultCurrency \o "\"}"

PrefsObjects ==
    [theme : {"light", "dark"}, notifications : BOOLEAN, defaultCurrency : {"USD"}]
JSONparsePrefs(text) == CHOOSE p \in PrefsObjects : JSONstringifyPrefs(p) = text

\* JSON.stringify of a string: the text between double quotes.  The
\* backslash JSON.stringify puts before each inner quote is left out: the
\* text is stored, compared and parsed back whole, and Quote is one-to-one.
Quote(text) == "\"" \o text \o "\""

\* the texts a JSON column may hold: the encodings of the lists and the
\* objects, and the encodings of such texts, to the depth MaxNesting
ListTexts == {JSONstringifyList(l) : l \in TagLists}
PrefsTexts == {JSONstringifyPrefs(p) : p \in PrefsObjects}
RECURSIVE JsonTexts(_)
JsonTexts(n) ==
    IF n = 0 THEN ListTexts \cup PrefsTexts
    ELSE JsonTexts(n - 1) \cup {Quote(t) : t \in JsonTexts(n - 1)}

\* JSON.stringify and JSON.parse of what a composite field holds
JSONstringify(x) ==
    CASE x.kind = "array" -> JSONstringifyList(x.v)
      [] x.kind = "object" -> JSONstringifyPrefs(x.v)
      [] x.kind = "string" -> Quote(x.v)
      [] x.kind = "null" -> "null"

JSONparse(text) ==
    IF text \in ListTexts THEN Arr(JSONparseList(text))
    ELSE IF text \in PrefsTexts THEN Obj(JSONparsePrefs(text))
    ELSE IF text = "null" THEN Null
    ELSE Str(CHOOSE t \in JsonTexts(MaxNesting - 1) : Quote(t) = text)

\* ------------------------------------------------------------- schema
\* the statements createTables executes, in order, by the object they create
DdlLib == <<"users", "trades", "watchlist", "alerts", "performance_metrics">>
DdlExt == DdlLib \o <<"idx_trades_symbol", "idx_trades_date", "idx_trades_type",
                      "idx_watchlist_symbol", "idx_alerts_active">>
Ddl(i) == IF i = Lib THEN DdlLib ELSE DdlExt

NullDb == "null"
Conn == "tradenote"

VARIABLES
    impl,             \* which copy of the class runs
    isNative,         \* Capacitor.isNativePlatform()
    db,               \* this.db: NullDb or the connection
    isInitialized,    \* this.isInitialized
    opened,           \* engine: the database is open
    schema,           \* engine: the tables and indexes that exist
    createConnCalls,  \* engine: calls of sqlite.createConnection so far
    schemaRuns,       \* engine: runs of createTables that executed every statement
    pc,               \* per caller: where its initialize() is suspended
    ddlIdx,           \* per caller: the createTables statement it awaits
    users, trades, watchlist, alerts, performance_metrics,   \* the five tables
    uuidCount,        \* calls of crypto.randomUUID() so far
    outcome,          \* what the last call did: its name, status, argument, result
    clock,            \* RealDataService: what Date.now() returns
    cache,            \* RealDataService.cache: per key, the data and its timestamp
    lastRequest,      \* RealDataService.providers: lastRequest of each provider
    calls,            \* per getRealTimePrice call: where it is suspended
    sent,             \* per provider: the times at which its requests started
    state,            \* UserProvider: the state of useReducer(userReducer)
    localStorage,     \* localStorage: the item 'user'
    loader,           \* loadUser: where it is, and the saved user the page held
    signups,          \* per signup call: where it is suspended
    updating          \* the updateUser call of the context that is suspended

tables == <<users, trades, watchlist, alerts, performance_metrics>>
engine == <<opened, schema, createConnCalls, schemaRuns>>
handle == <<db, isInitialized>>
procs == <<pc, ddlIdx>>
store == <<impl, isNative, handle, engine, procs, tables, uuidCount>>
service == <<clock, cache, lastRequest, calls, sent>>
context == <<state, localStorage, loader, signups, updating>>
vars == <<store, outcome, service, context>>

\* statuses of a call
Ok == "ok"
Pending == "pending"
NotInitialized == "Database not initialized"
EngineError == "engine error"
TypeError == "TypeError"

RequestError == "request error"

Result(op, status, arg, value) ==
    [op |-> op, status |-> status, arg |-> arg, value |-> value]

NoOutcome == Result("new", Ok, <<>>, <<>>)

\* the state of the user context when the provider mounts
initialState ==
    [user |-> Absent, isAuthenticated |-> FALSE, isLoading |-> TRUE, error |-> Absent,
     preferences |-> [theme |-> "dark", language |-> "en"]]

\* the signup calls that may be in flight together
Signups == {1, 2}

NoSignup == [pc |-> "idle", name |-> "", taken |-> FALSE, user |-> Absent, ok |-> FALSE]

\* RealDataService.initializeProviders: the rateLimit of each provider
providers ==
    [alphaVantage |-> 500, polygon |-> 1000, coingecko |-> 100, yfinance |-> 2000,
     news |-> 100, finnhub |-> 60]

cacheTimeout == 30000

\* the symbols whose price is asked for, and their cache keys
Symbols == {"AAPL", "TSLA"}

cacheKey(symbol) == "price_" \o symbol \o "_default"

CacheKeys == {cacheKey(symbol) : symbol \in Symbols}

\* the getRealTimePrice calls that may be in flight together
Calls == {1, 2}

Idle == [pc |-> "idle", symbol |-> "", wake |-> 0]

\* the instants at which the clock is read
Now == 1000
Clock == {Now, Now + 60, Now + cacheTimeout - 1, Now + cacheTimeout}

Init ==
    /\ impl \in Impls
    /\ isNative \in IF impl = Lib THEN BOOLEAN ELSE {FALSE}
    /\ db = NullDb
    /\ isInitialized = FALSE
    /\ opened = FALSE
    /\ schema = {}
    /\ createConnCalls = 0
    /\ schemaRuns = 0
    /\ pc = [p \in Callers |-> "idle"]
    /\ ddlIdx = [p \in Callers |-> 0]
    /\ users = {} /\ trades = {} /\ watchlist = {} /\ alerts = {}
    /\ performance_metrics = {}
    /\ uuidCount = 0
    /\ outcome = NoOutcome
    /\ clock = Now
    /\ cache = [key \in CacheKeys |-> Absent]
    /\ lastRequest = [name \in DOMAIN providers |-> 0]
    /\ calls = [c \in Calls |-> Idle]
    /\ sent = [name \in DOMAIN providers |-> <<>>]
    /\ state = initialState
    /\ localStorage = Absent
    /\ loader = [pc |-> "unmounted", saved |-> Absent]
    /\ signups = [s \in Signups |-> NoSignup]
    /\ updating = Absent

\* ------------------------------------------------------------ initialize
\* initialize() runs from one await to the next without interruption; each
\* action below is one such stretch of the call of caller p.

\* a guard that never finds the store initialized
GuardMissing == FALSE

\* the guard on isInitialized, read when the call starts
AlreadyInitialized == isInitialized

InitReturn(p, status) ==
    /\ pc' = [pc EXCEPT ![p] = "idle"]
    /\ ddlIdx' = [ddlIdx EXCEPT ![p] = 0]
    /\ outcome' = Result("initialize", status, p, "returned")

InitSuspend(p, at) ==
    /\ pc' = [pc EXCEPT ![p] = at]
    /\ outcome' = Result("initialize", Pending, p, at)

\* entry: the guard, then (Lib, native) requestPermissions or createConnection
InitStart(p) ==
    /\ pc[p] = "idle"
    /\ IF AlreadyInitialized
       THEN /\ outcome' = Result("initialize", Ok, p, "skipped")
            /\ UNCHANGED <<service, context, impl, isNative, handle, engine, procs, tables, uuidCount>>
       ELSE IF impl = Lib /\ isNative
       THEN /\ InitSuspend(p, "perm")
            /\ UNCHANGED <<service, context, impl, isNative, handle, engine, ddlIdx, tables, uuidCount>>
       ELSE /\ createConnCalls < MaxConnCalls
            /\ createConnCalls' = createConnCalls + 1
            /\ InitSuspend(p, "conn")
            /\ UNCHANGED <<service, context, impl, isNative, handle, opened, schema, schemaRuns,
                           ddlIdx, tables, uuidCount>>

\* requestPermissions resolved: createConnection is called
PermDone(p) ==
    /\ pc[p] = "perm"
    /\ createConnCalls < MaxConnCalls
    /\ createConnCalls' = createConnCalls + 1
    /\ InitSuspend(p, "conn")
    /\ UNCHANGED <<service, context, impl, isNative, handle, opened, schema, schemaRuns,
                   ddlIdx, tables, uuidCount>>

\* createConnection resolved: this.db is assigned, db.open() is called
ConnDone(p) ==
    /\ pc[p] = "conn"
    /\ db' = Conn
    /\ InitSuspend(p, "open")
    /\ UNCHANGED <<service, context, impl, isNative, isInitialized, engine, ddlIdx, tables, uuidCount>>

\* db.open() resolved: createTables checks this.db and executes its first statement
OpenDone(p) ==
    /\ pc[p] = "open"
    /\ opened' = TRUE
    /\ IF db = NullDb
       THEN /\ InitReturn(p, NotInitialized)
       ELSE /\ pc' = [pc EXCEPT ![p] = "ddl"]
            /\ ddlIdx' = [ddlIdx EXCEPT ![p] = 1]
            /\ outcome' = Result("initialize", Pending, p, "ddl")
    /\ UNCHANGED <<service, context, impl, isNative, handle, schema, createConnCalls, schemaRuns,
                   tables, uuidCount>>

\* one CREATE ... IF NOT EXISTS resolved: the next one is executed, or
\* createTables returns and isInitialized is set
\* createTables returning after its first statement
createTablesDoneEarly(p) == ddlIdx[p] >= 1

\* createTables returns when its last statement has resolved
createTablesDone(p) == ddlIdx[p] >= Len(Ddl(impl))

DdlDone(p) ==
    /\ pc[p] = "ddl"
    /\ opened
    /\ schema' = schema \cup {Ddl(impl)[ddlIdx[p]]}
    /\ IF ~ createTablesDone(p)
       THEN IF db = NullDb
            THEN /\ InitReturn(p, TypeError)
                 /\ UNCHANGED <<isInitialized, schemaRuns>>
            ELSE /\ ddlIdx' = [ddlIdx EXCEPT ![p] = @ + 1]
                 /\ outcome' = Result("initialize", Pending, p, "ddl")
                 /\ UNCHANGED <<pc, isInitialized, schemaRuns>>
       ELSE /\ schemaRuns' = schemaRuns + 1
            /\ isInitialized' = TRUE
            /\ InitReturn(p, Ok)
    /\ UNCHANGED <<service, context, impl, isNative, db, opened, createConnCalls, tables, uuidCount>>

\* the awaited engine call rejects: the catch block logs and rethrows
InitFail(p) ==
    /\ pc[p] \in {"perm", "conn", "open", "ddl"}
    /\ InitReturn(p, EngineError)
    /\ UNCHANGED <<service, context, impl, isNative, handle, engine, tables, uuidCount>>

\* ------------------------------------------------------------------ close
closeReset ==
    /\ db' = NullDb
    /\ isInitialized' = FALSE

\* the outcome's arg tells whether close was called on an initialized store
\* that held its connection, its value what the engine call did
close ==
    /\ IF db = NullDb
       THEN /\ outcome' = Result("close", Ok, FALSE, "no connection")
            /\ UNCHANGED <<handle, engine>>
       ELSE \/ /\ opened' = FALSE
               /\ IF impl = Lib THEN closeReset ELSE UNCHANGED handle
               /\ outcome' = Result("close", Ok, isInitialized, "closed")
               /\ UNCHANGED <<schema, createConnCalls, schemaRuns>>
            \/ /\ outcome' = Result("close", IF impl = Lib THEN EngineError ELSE Ok,
                                    isInitialized, "threw")
               /\ UNCHANGED <<handle, engine>>
    /\ UNCHANGED <<service, context, impl, isNative, procs, tables, uuidCount>>

\* ----------------------------------------------------------- the engine
\* a statement on a table runs only on an open database that has the table
EngineReady(table) == opened /\ table \in schema

\* an INSERT into a table without PRIMARY KEY
PrimaryKeyUnchecked(table, row) == TRUE

\* INSERT: the PRIMARY KEY (id) must be new
PrimaryKeyFree(table, row) == \A r \in table : r.id # row.id

\* INSERT OR REPLACE: the rows that conflict with the new row on a PRIMARY
\* KEY or UNIQUE column (id is the only one in watchlist and
\* performance_metrics) are deleted, then the row is inserted
insertOrReplace(table, row) == {r \in table : r.id # row.id} \cup {row}

\* the sequences that list every element of the set S once
RECURSIVE Orderings(_)
Orderings(S) ==
    IF S = {} THEN {<<>>}
    ELSE UNION {{<<x>> \o s : s \in Orderings(S \ {x})} : x \in S}

Min(a, b) == IF a < b THEN a ELSE b

\* what is thrown where the store cannot go on: a not-initialized error by
\* the guard on this.db, or the engine's rejection
Throw(op, status, arg) ==
    /\ outcome' = Result(op, status, arg, <<>>)
    /\ UNCHANGED <<service, context, impl, isNative, handle, engine, procs, tables, uuidCount>>

\* a read: only the outcome changes
Return(op, arg, value) ==
    /\ outcome' = Result(op, Ok, arg, value)
    /\ UNCHANGED <<service, context, impl, isNative, handle, engine, procs, tables, uuidCount>>

\* The rows of the five tables and the randomUUID count, as one value st that
\* the statements of a call transform; st.ok turns FALSE where a statement
\* is rejected, and the statements after it do not run.
Store ==
    [users |-> users, trades |-> trades, watchlist |-> watchlist, alerts |-> alerts,
     performance_metrics |-> performance_metrics, uuid |-> uuidCount, ok |-> TRUE,
     id |-> ""]

Rejected(st) == [st EXCEPT !.ok = FALSE]

\* a write: the tables and the uuid count become those of st
Commit(op, arg, st) ==
    /\ st.uuid <= MaxUuid
    /\ users' = st.users /\ trades' = st.trades /\ watchlist' = st.watchlist
    /\ alerts' = st.alerts /\ performance_metrics' = st.performance_metrics
    /\ uuidCount' = st.uuid
    /\ outcome' = Result(op, IF st.ok THEN Ok ELSE EngineError, arg,
                         IF st.ok THEN st.id ELSE <<>>)
    /\ UNCHANGED <<service, context, impl, isNative, handle, engine, procs>>

\* `x.id || crypto.randomUUID()`
IdOrUuid(x, n) == IF TruthyStr(x.id) THEN x.id[1] ELSE randomUUID(n)
UuidAfter(x, n) == IF TruthyStr(x.id) THEN n ELSE n + 1

\* ------------------------------------------------------------------ trades
\* A Trade as a caller passes it.  exitPrice and profit stand for the
\* optional numbers (confidence, stopLoss, takeProfit are bound the same
\* way), notes for the optional strings (mood, screenshot, strategy,
\* market, session).

\* the values createTrade binds to INSERT INTO trades
tradeValues(i, trade, id) ==
    IF i = Lib
    THEN [id |-> id, symbol |-> trade.symbol, type |-> trade.type,
          entryPrice |-> trade.entryPrice, exitPrice |-> trade.exitPrice,
          quantity |-> trade.quantity, entryDate |-> trade.entryDate,
          exitDate |-> trade.exitDate, profit |-> trade.profit,
          notes |-> trade.notes,
          tags |-> Some(JSONstringify(IF TruthyArr(trade.tags)
                                      THEN trade.tags[1] ELSE Arr(<<>>))),
          createdAt |-> trade.createdAt, updatedAt |-> trade.updatedAt]
    ELSE [id |-> id, symbol |-> trade.symbol, type |-> trade.type,
          entryPrice |-> trade.entryPrice, exitPrice |-> OrNullNum(trade.exitPrice),
          quantity |-> trade.quantity, entryDate |-> trade.entryDate,
          exitDate |-> OrNullNum(trade.exitDate), profit |-> OrNullNum(trade.profit),
          notes |-> OrNullStr(trade.notes),
          tags |-> IF TruthyArr(trade.tags)
                   THEN Some(JSONstringify(trade.tags[1])) ELSE Absent,
          createdAt |-> trade.createdAt, updatedAt |-> trade.updatedAt]

\* the statement of createTrade on the store st
insertTrade(i, st, trade) ==
    LET row == tradeValues(i, trade, IdOrUuid(trade, st.uuid))
        st1 == [st EXCEPT !.uuid = UuidAfter(trade, st.uuid), !.id = row.id]
    IN IF EngineReady("trades") /\ PrimaryKeyFree(st.trades, row)
       THEN [st1 EXCEPT !.trades = st.trades \cup {row}]
       ELSE Rejected(st1)

createTrade(trade) ==
    IF db = NullDb THEN Throw("createTrade", NotInitialized, trade)
    ELSE Commit("createTrade", trade, insertTrade(impl, Store, trade))

\* a WHERE clause whose upper date bound is exclusive
tradeMatchesEndExclusive(row, filters) ==
    /\ TruthyStr(filters.symbol) => row.symbol = filters.symbol[1]
    /\ TruthyStr(filters.type) => row.type = filters.type[1]
    /\ TruthyNum(filters.startDate) => row.entryDate >= filters.startDate[1]
    /\ TruthyNum(filters.endDate) => row.entryDate < filters.endDate[1]

\* the WHERE clause getTrades builds: a predicate is appended for a filter
\* only when the filter's value is truthy
tradeMatches(row, filters) ==
    /\ TruthyStr(filters.symbol) => row.symbol = filters.symbol[1]
    /\ TruthyStr(filters.type) => row.type = filters.type[1]
    /\ TruthyNum(filters.startDate) => row.entryDate >= filters.startDate[1]
    /\ TruthyNum(filters.endDate) => row.entryDate <= filters.endDate[1]

\* ORDER BY entryDate: ascending
orderedByEntryDateAsc(rows) ==
    {s \in Orderings(rows) :
        \A i, j \in DOMAIN s : i < j => s[i].entryDate <= s[j].entryDate}

\* ORDER BY entryDate DESC: any order of the rows that is descending
orderedByEntryDate(rows) ==
    {s \in Orderings(rows) :
        \A i, j \in DOMAIN s : i < j => s[i].entryDate >= s[j].entryDate}

\* LIMIT ? and OFFSET ?, each appended only when its value is truthy
limitOffset(s, filters) ==
    LET off == IF TruthyNum(filters.offset) THEN filters.offset[1] ELSE 0
        lim == IF TruthyNum(filters.limit) THEN filters.limit[1] ELSE Len(s)
    IN SubSeq(s, off + 1, Min(Len(s), off + lim))

\* the engine rejects OFFSET without LIMIT
queryWellFormed(filters) == TruthyNum(filters.offset) => TruthyNum(filters.limit)

\* a row as getTrades returns it: tags parsed, absent tags as []
tradeFromRow(row) ==
    [row EXCEPT !.tags = IF row.tags # Absent THEN JSONparse(row.tags[1])
                         ELSE Arr(<<>>)]

\* the arrays getTrades(filters) may return
tradesSelected(filters) ==
    {[k \in DOMAIN limitOffset(s, filters) |-> tradeFromRow(limitOffset(s, filters)[k])] :
        s \in orderedByEntryDate({r \in trades : tradeMatches(r, filters)})}

getTrades(filters) ==
    IF db = NullDb THEN Throw("getTrades", NotInitialized, filters)
    ELSE IF ~ (EngineReady("trades") /\ queryWellFormed(filters))
    THEN Throw("getTrades", EngineError, filters)
    ELSE \E value \in tradesSelected(filters) : Return("getTrades", filters, value)

\* an UPDATE that advances updatedAt by itself
updateTradeRowStamping(i, row, trade) ==
    [tradeValues(i, trade, row.id) EXCEPT !.createdAt = row.createdAt,
                                          !.updatedAt = row.updatedAt + 1]

\* the row UPDATE trades SET ... WHERE id = ? leaves in place of row
updateTradeRow(i, row, trade) ==
    [tradeValues(i, trade, row.id) EXCEPT !.createdAt = row.createdAt]

updateTrade(trade) ==
    IF db = NullDb THEN Throw("updateTrade", NotInitialized, trade)
    ELSE IF ~ EngineReady("trades") THEN Throw("updateTrade", EngineError, trade)
    ELSE Commit("updateTrade", trade,
                [Store EXCEPT !.trades = {IF Some(r.id) = trade.id
                                          THEN updateTradeRow(impl, r, trade)
                                          ELSE r : r \in trades}])

\* a delete that is rejected when no row has the id
deleteTradeStrict(id) ==
    IF db = NullDb THEN Throw("deleteTrade", NotInitialized, id)
    ELSE IF ~ (EngineReady("trades") /\ \E r \in trades : r.id = id)
    THEN Throw("deleteTrade", EngineError, id)
    ELSE Commit("deleteTrade", id, [Store EXCEPT !.trades = {r \in trades : r.id # id}])

deleteTrade(id) ==
    IF db = NullDb THEN Throw("deleteTrade", NotInitialized, id)
    ELSE IF ~ EngineReady("trades") THEN Throw("deleteTrade", EngineError, id)
    ELSE Commit("deleteTrade", id, [Store EXCEPT !.trades = {r \in trades : r.id # id}])

\* ------------------------------------------------------------------- users
\* the values createUser binds; tradingStyle stands for riskTolerance and
\* experienceLevel too
userValues(user) ==
    [id |-> user.id, email |-> user.email, name |-> user.name,
     password |-> OrNullStr(user.password), tradingStyle |-> user.tradingStyle,
     preferences |-> JSONstringify(user.preferences),
     createdAt |-> user.createdAt, updatedAt |-> user.updatedAt]

\* a users table without the UNIQUE constraint on email
EmailUnchecked(table, row) == TRUE

\* email TEXT UNIQUE
EmailFree(table, row) == \A r \in table : r.id # row.id => r.email # row.email

\* an insert that replaces the rows it conflicts with
insertUserOrReplace(st, user) ==
    LET row == userValues(user)
    IN IF EngineReady("users")
       THEN [st EXCEPT !.id = row.id,
                       !.users = {r \in st.users : r.id # row.id /\ r.email # row.email}
                                   \cup {row}]
       ELSE Rejected([st EXCEPT !.id = row.id])

insertUser(st, user) ==
    LET row == userValues(user)
        st1 == [st EXCEPT !.id = row.id]
    IN IF EngineReady("users") /\ PrimaryKeyFree(st.users, row)
          /\ EmailFree(st.users, row)
       THEN [st1 EXCEPT !.users = st.users \cup {row}]
       ELSE Rejected(st1)

createUser(user) ==
    IF db = NullDb THEN Throw("createUser", NotInitialized, user)
    ELSE Commit("createUser", user, insertUser(Store, user))

userFromRow(row) == [row EXCEPT !.preferences = JSONparse(row.preferences)]

\* getUser returns the user or null
getUser(id) ==
    IF db = NullDb THEN Throw("getUser", NotInitialized, id)
    ELSE IF ~ EngineReady("users") THEN Throw("getUser", EngineError, id)
    ELSE IF \E r \in users : r.id = id
    THEN Return("getUser", id, Some(userFromRow(CHOOSE r \in users : r.id = id)))
    ELSE Return("getUser", id, Absent)

\* Ext only
getUserByName(name) ==
    /\ impl = Ext
    /\ IF db = NullDb THEN Throw("getUserByName", NotInitialized, name)
       ELSE IF ~ EngineReady("users") THEN Throw("getUserByName", EngineError, name)
       ELSE IF \E r \in users : r.name = name
       THEN \E r \in {u \in users : u.name = name} :
                Return("getUserByName", name, Some(userFromRow(r)))
       ELSE Return("getUserByName", name, Absent)

\* SELECT * FROM users has no ORDER BY: the array holds the users in an
\* order the engine chooses
getUsers ==
    IF db = NullDb THEN Throw("getUsers", NotInitialized, <<>>)
    ELSE IF ~ EngineReady("users") THEN Throw("getUsers", EngineError, <<>>)
    ELSE \E s \in Orderings(users) :
             Return("getUsers", <<>>, [k \in DOMAIN s |-> userFromRow(s[k])])

updateUserRow(row, user) ==
    [userValues(user) EXCEPT !.id = row.id, !.createdAt = row.createdAt]

updateUser(user) ==
    IF db = NullDb THEN Throw("updateUser", NotInitialized, user)
    ELSE LET updated == {IF r.id = user.id THEN updateUserRow(r, user) ELSE r :
                            r \in users}
         IN IF EngineReady("users")
               /\ \A r \in users : r.id = user.id => EmailFree(users, updateUserRow(r, user))
            THEN Commit("updateUser", user, [Store EXCEPT !.users = updated])
            ELSE Throw("updateUser", EngineError, user)

\* one statement of a call that runs several: it runs when none before it
\* was rejected, and is rejected on a table the engine does not have
Run(st, table, after) ==
    IF ~ st.ok THEN st ELSE IF EngineReady(table) THEN after ELSE Rejected(st)

\* Ext only: each DELETE FROM t WHERE id IN (SELECT id FROM users WHERE id = ?)
\* removes the rows of t whose own id is the id of a stored user with that id
deleteUserStatements(st, id) ==
    LET ids == {u.id : u \in {r \in st.users : r.id = id}}
        s1 == Run(Run(st, "users", st), "trades",
                  [st EXCEPT !.trades = {r \in st.trades : r.id \notin ids}])
        s2 == Run(s1, "watchlist",
                  [s1 EXCEPT !.watchlist = {r \in s1.watchlist : r.id \notin ids}])
        s3 == Run(s2, "alerts",
                  [s2 EXCEPT !.alerts = {r \in s2.alerts : r.id \notin ids}])
        s4 == Run(s3, "performance_metrics",
                  [s3 EXCEPT !.performance_metrics =
                       {r \in s3.performance_metrics : r.id \notin ids}])
    IN Run(s4, "users", [s4 EXCEPT !.users = {r \in s4.users : r.id # id}])

deleteUser(id) ==
    /\ impl = Ext
    /\ IF db = NullDb THEN Throw("deleteUser", NotInitialized, id)
       ELSE Commit("deleteUser", id, deleteUserStatements(Store, id))

\* --------------------------------------------------------------- watchlist
\* currentPrice stands for change and changePercent too
watchlistValues(i, item, id) ==
    IF i = Lib
    THEN [id |-> id, symbol |-> item.symbol, name |-> item.name,
          currentPrice |-> item.currentPrice, addedAt |-> item.addedAt]
    ELSE [id |-> id, symbol |-> item.symbol, name |-> OrNullStr(item.name),
          currentPrice |-> OrNullNum(item.currentPrice), addedAt |-> item.addedAt]

\* Lib: INSERT INTO watchlist; Ext: INSERT OR REPLACE INTO watchlist
insertWatchlist(i, st, item) ==
    LET row == watchlistValues(i, item, IdOrUuid(item, st.uuid))
        st1 == [st EXCEPT !.uuid = UuidAfter(item, st.uuid), !.id = row.id]
    IN IF ~ EngineReady("watchlist") THEN Rejected(st1)
       ELSE IF i = Ext
       THEN [st1 EXCEPT !.watchlist = insertOrReplace(st.watchlist, row)]
       ELSE IF PrimaryKeyFree(st.watchlist, row)
       THEN [st1 EXCEPT !.watchlist = st.watchlist \cup {row}]
       ELSE Rejected(st1)

addToWatchlist(item) ==
    IF db = NullDb THEN Throw("addToWatchlist", NotInitialized, item)
    ELSE Commit("addToWatchlist", item, insertWatchlist(impl, Store, item))

\* ORDER BY addedAt DESC
orderedByAddedAt(rows) ==
    {s \in Orderings(rows) :
        \A i, j \in DOMAIN s : i < j => s[i].addedAt >= s[j].addedAt}

getWatchlist ==
    IF db = NullDb THEN Throw("getWatchlist", NotInitialized, <<>>)
    ELSE IF ~ EngineReady("watchlist") THEN Throw("getWatchlist", EngineError, <<>>)
    ELSE \E s \in orderedByAddedAt(watchlist) : Return("getWatchlist", <<>>, s)

removeFromWatchlist(symbol) ==
    IF db = NullDb THEN Throw("removeFromWatchlist", NotInitialized, symbol)
    ELSE IF ~ EngineReady("watchlist")
    THEN Throw("removeFromWatchlist", EngineError, symbol)
    ELSE Commit("removeFromWatchlist", symbol,
                [Store EXCEPT !.watchlist = {r \in watchlist : r.symbol # symbol}])

\* ------------------------------------------------------------------ alerts
\* alert.value is a number or a string: [type, text], text being what
\* toString() returns
toString(value) == value.text

alertValues(alert, id) ==
    [id |-> id, symbol |-> alert.symbol, type |-> alert.type,
     condition |-> alert.condition, value |-> toString(alert.value),
     message |-> alert.message, isActive |-> IF alert.isActive THEN 1 ELSE 0,
     createdAt |-> alert.createdAt]

insertAlert(st, alert) ==
    LET row == alertValues(alert, IdOrUuid(alert, st.uuid))
        st1 == [st EXCEPT !.uuid = UuidAfter(alert, st.uuid), !.id = row.id]
    IN IF EngineReady("alerts") /\ PrimaryKeyFree(st.alerts, row)
       THEN [st1 EXCEPT !.alerts = st.alerts \cup {row}]
       ELSE Rejected(st1)

createAlert(alert) ==
    IF db = NullDb THEN Throw("createAlert", NotInitialized, alert)
    ELSE Commit("createAlert", alert, insertAlert(Store, alert))

\* ORDER BY createdAt DESC
orderedByCreatedAt(rows) ==
    {s \in Orderings(rows) :
        \A i, j \in DOMAIN s : i < j => s[i].createdAt >= s[j].createdAt}

\* Lib returns the rows as stored; Ext turns isActive into a boolean
alertFromRow(i, row) ==
    IF i = Lib THEN row ELSE [row EXCEPT !.isActive = (row.isActive # 0)]

getAlerts ==
    IF db = NullDb THEN Throw("getAlerts", NotInitialized, <<>>)
    ELSE IF ~ EngineReady("alerts") THEN Throw("getAlerts", EngineError, <<>>)
    ELSE \E s \in orderedByCreatedAt(alerts) :
             Return("getAlerts", <<>>, [k \in DOMAIN s |-> alertFromRow(impl, s[k])])

\* UPDATE alerts SET ... WHERE id = ? (createdAt is not in the SET list)
updateAlertRow(row, alert) ==
    [alertValues(alert, row.id) EXCEPT !.createdAt = row.createdAt]

updateAlert(alert) ==
    IF db = NullDb THEN Throw("updateAlert", NotInitialized, alert)
    ELSE IF ~ EngineReady("alerts") THEN Throw("updateAlert", EngineError, alert)
    ELSE Commit("updateAlert", alert,
                [Store EXCEPT !.alerts = {IF Some(r.id) = alert.id
                                          THEN updateAlertRow(r, alert)
                                          ELSE r : r \in alerts}])

deleteAlert(id) ==
    IF db = NullDb THEN Throw("deleteAlert", NotInitialized, id)
    ELSE IF ~ EngineReady("alerts") THEN Throw("deleteAlert", EngineError, id)
    ELSE Commit("deleteAlert", id, [Store EXCEPT !.alerts = {r \in alerts : r.id # id}])

\* ------------------------------------------------------ performance metrics
\* totalTrades stands for the eleven numeric columns; now is what
\* new Date().toISOString() returns
metricsValues(i, metrics, id, now) ==
    [id |-> id, date |-> metrics.date,
     totalTrades |-> IF i = Lib \/ TruthyNum(metrics.totalTrades)
                     THEN metrics.totalTrades ELSE Some(0),
     createdAt |-> now]

\* Lib: INSERT; Ext: INSERT OR REPLACE; the id is always a new uuid
insertMetrics(i, st, metrics, now) ==
    LET row == metricsValues(i, metrics, randomUUID(st.uuid), now)
        st1 == [st EXCEPT !.uuid = st.uuid + 1, !.id = row.id]
    IN IF ~ EngineReady("performance_metrics") THEN Rejected(st1)
       ELSE IF i = Ext
       THEN [st1 EXCEPT !.performance_metrics =
                            insertOrReplace(st.performance_metrics, row)]
       ELSE IF PrimaryKeyFree(st.performance_metrics, row)
       THEN [st1 EXCEPT !.performance_metrics = st.performance_metrics \cup {row}]
       ELSE Rejected(st1)

savePerformanceMetrics(metrics, now) ==
    IF db = NullDb THEN Throw("savePerformanceMetrics", NotInitialized, metrics)
    ELSE Commit("savePerformanceMetrics", metrics,
                insertMetrics(impl, Store, metrics, now))

\* ORDER BY date DESC
orderedByDate(rows) ==
    {s \in Orderings(rows) : \A i, j \in DOMAIN s : i < j => s[i].date >= s[j].date}

metricsMatches(row, startDate, endDate) ==
    /\ TruthyNum(startDate) => row.date >= startDate[1]
    /\ TruthyNum(endDate) => row.date <= endDate[1]

getPerformanceMetrics(startDate, endDate) ==
    IF db = NullDb
    THEN Throw("getPerformanceMetrics", NotInitialized, <<startDate, endDate>>)
    ELSE IF ~ EngineReady("performance_metrics")
    THEN Throw("getPerformanceMetrics", EngineError, <<startDate, endDate>>)
    ELSE \E s \in orderedByDate({r \in performance_metrics :
                                    metricsMatches(r, startDate, endDate)}) :
             Return("getPerformanceMetrics", <<startDate, endDate>>, s)

\* ------------------------------------------------------- export and import
AllTablesReady ==
    opened /\ {"users", "trades", "watchlist", "alerts", "performance_metrics"}
                  \subseteq schema

NoFilters ==
    [symbol |-> Absent, type |-> Absent, startDate |-> Absent, endDate |-> Absent,
     limit |-> Absent, offset |-> Absent]

\* a row of SELECT * FROM users / trades as it is: the JSON column is a
\* string (or null)
rawUser(row) == [row EXCEPT !.preferences = Str(row.preferences)]
rawTrade(row) ==
    [row EXCEPT !.tags = IF row.tags = Absent THEN Null ELSE Str(row.tags[1])]

\* the snapshots exportData may return.  Lib: the rows of SELECT * FROM each
\* table, under the keys users, trades, watchlist, alerts, metrics,
\* exportedAt.  Ext: what getUsers(), getTrades(), getWatchlist(),
\* getAlerts() and getPerformanceMetrics() return, under version, exportDate,
\* users, trades, watchlist, alerts, performanceMetrics.
snapshots(i, now) ==
    IF i = Lib
    THEN {[users |-> [k \in DOMAIN u |-> rawUser(u[k])],
           trades |-> [k \in DOMAIN t |-> rawTrade(t[k])],
           watchlist |-> w, alerts |-> a, metrics |-> m, exportedAt |-> now] :
             u \in Orderings(users), t \in Orderings(trades),
             w \in Orderings(watchlist), a \in Orderings(alerts),
             m \in Orderings(performance_metrics)}
    ELSE {[version |-> "1.0", exportDate |-> now,
           users |-> [k \in DOMAIN u |-> userFromRow(u[k])], trades |-> t,
           watchlist |-> w,
           alerts |-> [k \in DOMAIN a |-> alertFromRow(Ext, a[k])],
           performanceMetrics |-> m] :
             u \in Orderings(users), t \in tradesSelected(NoFilters),
             w \in orderedByAddedAt(watchlist), a \in orderedByCreatedAt(alerts),
             m \in orderedByDate(performance_metrics)}

exportData(now) ==
    IF db = NullDb THEN Throw("exportData", NotInitialized, <<>>)
    ELSE IF ~ AllTablesReady THEN Throw("exportData", EngineError, <<>>)
    ELSE \E value \in snapshots(impl, now) : Return("exportData", <<>>, value)

\* A record of a snapshot as the argument of its create call.  The record is
\* passed as it is; only the model's notation changes: the id, present in
\* every row, is an id the caller supplies, a null tags is no tags, the
\* alert's value is the text of the TEXT column and its isActive is tested
\* for truthiness (Lib exports the stored 0 / 1, Ext a boolean).
tradeArgument(record) ==
    [record EXCEPT !.id = Some(record.id),
                   !.tags = IF record.tags.kind = "null" THEN Absent
                            ELSE Some(record.tags)]
itemArgument(record) == [record EXCEPT !.id = Some(record.id)]
alertArgument(i, record) ==
    [record EXCEPT !.id = Some(record.id),
                   !.value = [type |-> "string", text |-> record.value],
                   !.isActive = IF i = Lib THEN record.isActive # 0
                                ELSE record.isActive]

exportedArguments(i, data) ==
    LET t == [k \in DOMAIN data.trades |-> tradeArgument(data.trades[k])]
        w == [k \in DOMAIN data.watchlist |-> itemArgument(data.watchlist[k])]
        a == [k \in DOMAIN data.alerts |-> alertArgument(i, data.alerts[k])]
    IN [data EXCEPT !.trades = t, !.watchlist = w, !.alerts = a]

\* `data.key || []`, and the loop under `if (data.key)`
Array(data, key) == IF key \in DOMAIN data THEN data[key] ELSE <<>>

\* importData reading the key of the documented shape in both copies
metricsKeyDocumented(i) == "performanceMetrics"

\* the key importData reads the performance metrics from
metricsKey(i) == IF i = Lib THEN "metrics" ELSE "performanceMetrics"

\* an import that deletes nothing first
clearNothing(st) == st

\* the five DELETE FROM statements that clear the tables
clearTables(st) ==
    LET s1 == Run(st, "users", [st EXCEPT !.users = {}])
        s2 == Run(s1, "trades", [s1 EXCEPT !.trades = {}])
        s3 == Run(s2, "watchlist", [s2 EXCEPT !.watchlist = {}])
        s4 == Run(s3, "alerts", [s3 EXCEPT !.alerts = {}])
    IN Run(s4, "performance_metrics", [s4 EXCEPT !.performance_metrics = {}])

\* the loops of importData: each record goes through the create call of its
\* entity, and the first one rejected ends the import
RECURSIVE insertUsers(_, _)
insertUsers(st, list) ==
    IF list = <<>> \/ ~ st.ok THEN st
    ELSE insertUsers(insertUser(st, Head(list)), Tail(list))

RECURSIVE insertTrades(_, _, _)
insertTrades(i, st, list) ==
    IF list = <<>> \/ ~ st.ok THEN st
    ELSE insertTrades(i, insertTrade(i, st, Head(list)), Tail(list))

RECURSIVE insertWatchlistItems(_, _, _)
insertWatchlistItems(i, st, list) ==
    IF list = <<>> \/ ~ st.ok THEN st
    ELSE insertWatchlistItems(i, insertWatchlist(i, st, Head(list)), Tail(list))

RECURSIVE insertAlerts(_, _)
insertAlerts(st, list) ==
    IF list = <<>> \/ ~ st.ok THEN st
    ELSE insertAlerts(insertAlert(st, Head(list)), Tail(list))

RECURSIVE insertAllMetrics(_, _, _, _)
insertAllMetrics(i, st, list, now) ==
    IF list = <<>> \/ ~ st.ok THEN st
    ELSE insertAllMetrics(i, insertMetrics(i, st, Head(list), now), Tail(list), now)

imported(i, st, data, now) ==
    LET s0 == clearTables(st)
        s1 == insertUsers(s0, Array(data, "users"))
        s2 == insertTrades(i, s1, Array(data, "trades"))
        s3 == insertWatchlistItems(i, s2, Array(data, "watchlist"))
        s4 == insertAlerts(s3, Array(data, "alerts"))
    IN [insertAllMetrics(i, s4, Array(data, metricsKey(i)), now) EXCEPT !.id = ""]

importData(data, now) ==
    IF db = NullDb THEN Throw("importData", NotInitialized, data)
    ELSE Commit("importData", data, imported(impl, Store, data, now))

\* the strings among the composites of a snapshot are encoded once more by
\* the create calls: they must be texts of a depth below MaxNesting
Encodable(data) ==
    /\ \A k \in DOMAIN data.users :
           data.users[k].preferences.kind = "string"
             => data.users[k].preferences.v \in JsonTexts(MaxNesting - 1)
    /\ \A k \in DOMAIN data.trades :
           data.trades[k].tags.kind = "string"
             => data.trades[k].tags.v \in JsonTexts(MaxNesting - 1)

\* importData(await exportData()): the snapshot exportData has just returned
\* is imported.  importData clears the five tables first, so the rows it
\* finds are the rows an empty store would hold.
importExported(now) ==
    /\ outcome.op = "exportData" /\ outcome.status = Ok
    /\ Encodable(outcome.value)
    /\ importData(exportedArguments(impl, outcome.value), now)

\* ------------------------------------------------- the market data service
\* String.prototype.includes
includes(s, t) ==
    \E i \in 1..(Len(s) - Len(t) + 1) : SubSeq(s, i, i + Len(t) - 1) = t

selectBestProvider(symbol) ==
    IF includes(symbol, "USD") \/ includes(symbol, "EUR") \/ includes(symbol, "GBP")
    THEN "alphaVantage"
    ELSE IF includes(symbol, "BTC") \/ includes(symbol, "ETH") \/ includes(symbol, "USDT")
    THEN "coingecko"
    ELSE IF includes(symbol, ".") \/ Len(symbol) <= 5 THEN "polygon"
    ELSE "yfinance"

\* 60000 / provider.rateLimit
minInterval(name) == 60000 \div providers[name]

\* an entry that is served up to and at the age of cacheTimeout
getCachedDataLate(key) ==
    IF cache[key] # Absent /\ clock - cache[key][1].timestamp <= cacheTimeout
    THEN Some(cache[key][1].data) ELSE Absent

\* the data cached under key, or null: an entry is served while its age is
\* below cacheTimeout
getCachedData(key) ==
    IF cache[key] # Absent /\ clock - cache[key][1].timestamp < cacheTimeout
    THEN Some(cache[key][1].data) ELSE Absent

\* rateLimit: now - provider.lastRequest
timeSinceLastRequest(name) == clock - lastRequest[name]

\* rateLimit stamps provider.lastRequest and returns; the switch of
\* getRealTimePrice then sends the request of call c to the provider
request(c, symbol, name) ==
    /\ Len(sent[name]) < MaxRequests
    /\ lastRequest' = [lastRequest EXCEPT ![name] = clock]
    /\ sent' = [sent EXCEPT ![name] = Append(@, clock)]
    /\ calls' = [calls EXCEPT ![c] = [pc |-> "request", symbol |-> symbol, wake |-> 0]]
    /\ outcome' = Result("getRealTimePrice", Pending, symbol, "request")
    /\ UNCHANGED <<clock, cache>>

\* getRealTimePrice(symbol) up to its first await that suspends: the cached
\* data is returned; or rateLimit finds the gate closed and sleeps until the
\* interval has passed; or the request is sent
getRealTimePrice(c, symbol) ==
    LET cached == getCachedData(cacheKey(symbol))
        name == selectBestProvider(symbol)
    IN /\ calls[c].pc = "idle"
       /\ IF cached # Absent
          THEN /\ outcome' = Result("getRealTimePrice", Ok, symbol,
                                    [data |-> cached[1], from |-> "cache"])
               /\ UNCHANGED service
          ELSE IF timeSinceLastRequest(name) < minInterval(name)
          THEN /\ calls' = [calls EXCEPT ![c] =
                               [pc |-> "setTimeout", symbol |-> symbol,
                                wake |-> clock + minInterval(name)
                                           - timeSinceLastRequest(name)]]
               /\ outcome' = Result("getRealTimePrice", Pending, symbol, "setTimeout")
               /\ UNCHANGED <<clock, cache, lastRequest, sent>>
          ELSE request(c, symbol, name)
       /\ UNCHANGED <<store, context>>

\* the timer of rateLimit fires, not before its delay has passed
timerFired(c) ==
    /\ calls[c].pc = "setTimeout"
    /\ clock >= calls[c].wake
    /\ request(c, calls[c].symbol, selectBestProvider(calls[c].symbol))
    /\ UNCHANGED <<store, context>>

\* the provider answered: setCachedData stores the price under the key
\* with the current time, and the price is returned
responded(c, price) ==
    LET priceData == [symbol |-> calls[c].symbol, price |-> price]
    IN /\ calls[c].pc = "request"
       /\ cache' = [cache EXCEPT ![cacheKey(calls[c].symbol)] =
                        Some([data |-> priceData, timestamp |-> clock])]
       /\ calls' = [calls EXCEPT ![c] = Idle]
       /\ outcome' = Result("getRealTimePrice", Ok, calls[c].symbol,
                            [data |-> priceData, from |-> "provider"])
       /\ UNCHANGED <<store, context, clock, lastRequest, sent>>

\* the request failed: the error is logged and thrown again
failed(c) ==
    /\ calls[c].pc = "request"
    /\ calls' = [calls EXCEPT ![c] = Idle]
    /\ outcome' = Result("getRealTimePrice", RequestError, calls[c].symbol, <<>>)
    /\ UNCHANGED <<store, context, clock, cache, lastRequest, sent>>

\* time passes
tick ==
    /\ \E t \in Clock : t > clock /\ clock' = t
    /\ UNCHANGED <<store, context, outcome, cache, lastRequest, calls, sent>>

\* -------------------------------------------------------- the user context
\* { ...preferences, ...payload }
merged(preferences, payload) ==
    [k \in DOMAIN preferences |->
        IF k \in DOMAIN payload THEN payload[k] ELSE preferences[k]]

\* a SET_USER that leaves isAuthenticated as it is
userReducerKeepingFlag(s, action) ==
    IF action.type = "SET_LOADING" THEN [s EXCEPT !.isLoading = action.payload]
    ELSE IF action.type = "SET_USER"
    THEN [s EXCEPT !.user = action.payload, !.error = Absent]
    ELSE IF action.type = "SET_AUTHENTICATED"
    THEN [s EXCEPT !.isAuthenticated = action.payload]
    ELSE IF action.type = "SET_ERROR"
    THEN [s EXCEPT !.error = action.payload, !.isLoading = FALSE]
    ELSE IF action.type = "UPDATE_PREFERENCES"
    THEN [s EXCEPT !.preferences = merged(s.preferences, action.payload)]
    ELSE IF action.type = "LOGOUT"
    THEN [initialState EXCEPT !.isLoading = FALSE, !.preferences = s.preferences]
    ELSE s

userReducer(s, action) ==
    IF action.type = "SET_LOADING" THEN [s EXCEPT !.isLoading = action.payload]
    ELSE IF action.type = "SET_USER"
    THEN [s EXCEPT !.user = action.payload,
                   !.isAuthenticated = (action.payload # Absent), !.error = Absent]
    ELSE IF action.type = "SET_AUTHENTICATED"
    THEN [s EXCEPT !.isAuthenticated = action.payload]
    ELSE IF action.type = "SET_ERROR"
    THEN [s EXCEPT !.error = action.payload, !.isLoading = FALSE]
    ELSE IF action.type = "UPDATE_PREFERENCES"
    THEN [s EXCEPT !.preferences = merged(s.preferences, action.payload)]
    ELSE IF action.type = "LOGOUT"
    THEN [initialState EXCEPT !.isLoading = FALSE, !.preferences = s.preferences]
    ELSE s

Action(type, payload) == [type |-> type, payload |-> payload]

\* the state after the actions have been dispatched in order
RECURSIVE reduced(_, _)
reduced(s, actions) ==
    IF actions = <<>> THEN s
    ELSE reduced(userReducer(s, Head(actions)), Tail(actions))

\* dispatch(...), and the effect on [state.user]: the user is saved to
\* localStorage when there is one and the item is removed when there is none
dispatch(actions) ==
    /\ state' = reduced(state, actions)
    /\ localStorage' = IF reduced(state, actions).user # state.user
                       THEN reduced(state, actions).user ELSE localStorage

\* The provider mounts and its effects run in order: loadUser dispatches
\* SET_LOADING and awaits localDatabase.initialize(); the effect on
\* [state.user] then finds no user and removes the item the page held
mount(saved) ==
    /\ loader.pc = "unmounted"
    /\ state' = userReducer(state, Action("SET_LOADING", TRUE))
    /\ localStorage' = Absent
    /\ loader' = [pc |-> "initialize", saved |-> saved]
    /\ outcome' = Result("loadUser", Pending, saved, "initialize")
    /\ UNCHANGED <<store, service, signups, updating>>

\* initialize() has returned to loadUser or thrown
Settled ==
    /\ outcome.op = "initialize" /\ outcome.arg = "UserProvider"
    /\ outcome.status # Pending

\* a loadUser without its finally block
loadUserNoFinally == <<>>

\* the finally block of loadUser
loadUserFinally == <<Action("SET_LOADING", FALSE)>>

\* loadUser awaits its call of initialize()
Awaiting == loader.pc = "initialize" /\ ~ Settled

loadUserFailed ==
    <<Action("SET_ERROR", Some("Failed to load user data"))>> \o loadUserFinally

\* loadUser goes on after initialize(): the preferences and the user saved
\* in localStorage are read, the user is looked up in the store by id and
\* set when found, the item removed when not; the catch block sets the
\* error, the finally block clears isLoading
loadUser ==
    /\ loader.pc = "initialize" /\ Settled
    /\ loader' = [loader EXCEPT !.pc = "done"]
    /\ IF outcome.status # Ok
       THEN /\ dispatch(loadUserFailed)
            /\ outcome' = Result("loadUser", outcome.status, loader.saved, <<>>)
       ELSE IF localStorage = Absent
       THEN /\ dispatch(<<Action("UPDATE_PREFERENCES", state.preferences)>>
                        \o loadUserFinally)
            /\ outcome' = Result("loadUser", Ok, loader.saved, Absent)
       ELSE IF db = NullDb \/ ~ EngineReady("users")
       THEN /\ dispatch(loadUserFailed)
            /\ outcome' = Result("loadUser", EngineError, loader.saved, <<>>)
       ELSE IF \E r \in users : r.id = localStorage[1].id
       THEN /\ dispatch(<<Action("SET_USER",
                                 Some(userFromRow(CHOOSE r \in users :
                                                     r.id = localStorage[1].id)))>>
                        \o loadUserFinally)
            /\ outcome' = Result("loadUser", Ok, loader.saved, localStorage)
       ELSE /\ state' = reduced(state, loadUserFinally)
            /\ localStorage' = Absent
            /\ outcome' = Result("loadUser", Ok, loader.saved, Absent)
    /\ UNCHANGED <<store, service, signups, updating>>

\* the user signup creates
newUser(username, id, now) ==
    [id |-> id, email |-> username \o "@local", name |-> username,
     password |-> Absent, tradingStyle |-> "",
     preferences |-> Obj([theme |-> "dark", notifications |-> TRUE,
                          defaultCurrency |-> "USD"]),
     createdAt |-> now, updatedAt |-> now]

\* a signup that finds no name taken
existingUserNever(table, username) == FALSE

\* users.find(u => u.name === username)
existingUser(table, username) == \E u \in table : u.name = username

signupFailed(message) ==
    <<Action("SET_ERROR", Some(message)), Action("SET_LOADING", FALSE)>>

\* signup(username) up to the await of getUsers(); the Get Started button
\* of the Auth page is disabled while state.isLoading
signup(s, username) ==
    /\ signups[s].pc = "idle"
    /\ ~ state.isLoading
    /\ IF db = NullDb \/ ~ EngineReady("users")
       THEN /\ dispatch(<<Action("SET_LOADING", TRUE), Action("SET_ERROR", Absent)>>
                        \o signupFailed(IF db = NullDb THEN NotInitialized
                                        ELSE EngineError))
            /\ outcome' = Result("signup", IF db = NullDb THEN NotInitialized
                                           ELSE EngineError, username, <<>>)
            /\ UNCHANGED signups
       ELSE /\ dispatch(<<Action("SET_LOADING", TRUE), Action("SET_ERROR", Absent)>>)
            /\ signups' = [signups EXCEPT ![s] =
                              [NoSignup EXCEPT !.pc = "getUsers", !.name = username,
                                               !.taken = existingUser(users,
                                                                      username)]]
            /\ outcome' = Result("signup", Pending, username, "getUsers")
    /\ UNCHANGED <<store, service, loader, updating>>

\* getUsers() resolved: a user of that name makes signup throw; otherwise
\* the new user is passed to createUser
usersChecked(s, now) ==
    LET user == newUser(signups[s].name, randomUUID(uuidCount), now)
        st == IF db = NullDb THEN Rejected(Store)
              ELSE insertUser([Store EXCEPT !.uuid = uuidCount + 1], user)
    IN /\ signups[s].pc = "getUsers"
       /\ IF signups[s].taken
          THEN /\ dispatch(signupFailed("Username already taken"))
               /\ signups' = [signups EXCEPT ![s] = NoSignup]
               /\ outcome' = Result("signup", "Username already taken",
                                    signups[s].name, <<>>)
               /\ UNCHANGED <<tables, uuidCount>>
          ELSE /\ uuidCount < MaxUuid
               /\ users' = st.users
               /\ uuidCount' = uuidCount + 1
               /\ signups' = [signups EXCEPT ![s] =
                                 [@ EXCEPT !.pc = "createUser", !.user = Some(user),
                                           !.ok = st.ok]]
               /\ outcome' = Result("signup", Pending, signups[s].name, "createUser")
               /\ UNCHANGED <<state, localStorage, trades, watchlist, alerts,
                              performance_metrics>>
       /\ UNCHANGED <<impl, isNative, handle, engine, procs, service, loader, updating>>

\* createUser() resolved or threw: SET_USER, or SET_ERROR; then the finally
userCreated(s) ==
    /\ signups[s].pc = "createUser"
    /\ IF signups[s].ok
       THEN /\ dispatch(<<Action("SET_USER", signups[s].user),
                          Action("SET_LOADING", FALSE)>>)
            /\ outcome' = Result("signup", Ok, signups[s].name, signups[s].user)
       ELSE /\ dispatch(signupFailed(EngineError))
            /\ outcome' = Result("signup", EngineError, signups[s].name, <<>>)
    /\ signups' = [signups EXCEPT ![s] = NoSignup]
    /\ UNCHANGED <<store, service, loader, updating>>

\* a page under ProtectedRoute is rendered
Protected == state.isAuthenticated /\ ~ state.isLoading

\* logout() of the context
logout ==
    /\ Protected
    /\ dispatch(<<Action("SET_LOADING", TRUE), Action("LOGOUT", <<>>),
                  Action("SET_LOADING", FALSE)>>)
    /\ outcome' = Result("logout", Ok, <<>>, <<>>)
    /\ UNCHANGED <<store, service, loader, signups, updating>>

\* Settings.handleLogout
handleLogout ==
    /\ Protected
    /\ dispatch(<<Action("LOGOUT", <<>>)>>)
    /\ outcome' = Result("handleLogout", Ok, <<>>, <<>>)
    /\ UNCHANGED <<store, service, loader, signups, updating>>

updatePreferences(preferences) ==
    /\ Protected
    /\ dispatch(<<Action("UPDATE_PREFERENCES", preferences)>>)
    /\ outcome' = Result("updatePreferences", Ok, preferences, <<>>)
    /\ UNCHANGED <<store, service, loader, signups, updating>>

\* updateUser(userData) of the context up to the await of the store's
\* updateUser, which runs its UPDATE
contextUpdateUser(tradingStyle, now) ==
    LET updatedUser == [state.user[1] EXCEPT !.tradingStyle = tradingStyle,
                                             !.updatedAt = now]
        ok == /\ db # NullDb /\ EngineReady("users")
              /\ \A r \in users : r.id = updatedUser.id
                     => EmailFree(users, updateUserRow(r, updatedUser))
    IN /\ Protected
       /\ updating = Absent
       /\ dispatch(<<Action("SET_LOADING", TRUE), Action("SET_ERROR", Absent)>>)
       /\ updating' = Some([user |-> updatedUser, ok |-> ok])
       /\ users' = IF ok
                   THEN {IF r.id = updatedUser.id THEN updateUserRow(r, updatedUser)
                         ELSE r : r \in users}
                   ELSE users
       /\ outcome' = Result("updateUser", Pending, updatedUser, "updateUser")
       /\ UNCHANGED <<impl, isNative, handle, engine, procs, trades, watchlist, alerts,
                      performance_metrics, uuidCount, service, loader, signups>>

\* the store's updateUser resolved or threw
userUpdated ==
    /\ updating # Absent
    /\ IF updating[1].ok
       THEN /\ dispatch(<<Action("SET_USER", Some(updating[1].user)),
                          Action("SET_LOADING", FALSE)>>)
            /\ outcome' = Result("updateUser", Ok, updating[1].user, <<>>)
       ELSE /\ dispatch(signupFailed(EngineError))
            /\ outcome' = Result("updateUser", EngineError, updating[1].user, <<>>)
    /\ updating' = Absent
    /\ UNCHANGED <<store, service, loader, signups>>

\* ------------------------------------------------------- the trade pages
\* TradeDetails.saveTrade: the trade the page loaded, with the edit form over
\* it, is passed to updateTrade.  The form has inputs for exitPrice and
\* exitDate and none for profit; the page's copy is taken as loaded when the
\* form is saved, and nothing is done when no trade was found.
saveTrade(id, form, now) ==
    \E r \in {x \in trades : x.id = id} :
        updateTrade([tradeArgument(tradeFromRow(r)) EXCEPT
                        !.exitPrice = IF TruthyNum(form.exitPrice) THEN form.exitPrice
                                      ELSE Absent,
                        !.exitDate = form.exitDate, !.updatedAt = now])

\* LiveTrades.closeTrade: a trade of the live list (no exit date) is updated
\* with the exit price, the current time and the profit computed from them
closeTrade(id, exitPrice, now) ==
    \E r \in {x \in trades : x.id = id /\ ~ TruthyNum(x.exitDate)} :
        updateTrade([tradeArgument(tradeFromRow(r)) EXCEPT
                        !.exitPrice = Some(exitPrice), !.exitDate = Some(now),
                        !.profit = Some((exitPrice - r.entryPrice) * r.quantity),
                        !.updatedAt = now])

\* ------------------------------------------------------------- the inputs
\* the trade of the scenario: an open position, no id, no optional field
OpenTrade ==
    [id |-> Absent, symbol |-> "AAPL", type |-> "buy", entryPrice |-> 150,
     exitPrice |-> Absent, quantity |-> 10, entryDate |-> 1, exitDate |-> Absent,
     profit |-> Absent, notes |-> Absent, tags |-> Absent, createdAt |-> 1,
     updatedAt |-> 1]
\* a closed position that broke even: profit 0, empty notes, empty tag list
FlatTrade ==
    [OpenTrade EXCEPT !.id = Some("t1"), !.symbol = "TSLA", !.type = "sell",
                      !.entryDate = 2, !.exitPrice = Some(150), !.exitDate = Some(3),
                      !.profit = Some(0), !.notes = Some(""),
                      !.tags = Some(Arr(<<>>))]
\* the same position closed with a profit
WonTrade ==
    [FlatTrade EXCEPT !.exitPrice = Some(160), !.profit = Some(100),
                      !.notes = Some("target hit"),
                      !.tags = Some(Arr(<<"swing">>)),
                      !.updatedAt = 2]
LaterTrade ==
    [OpenTrade EXCEPT !.id = Some("t2"), !.type = "sell", !.entryDate = 2]
\* LaterTrade closed: at break-even, with a profit, with a loss
ClosedEven ==
    [LaterTrade EXCEPT !.exitPrice = Some(150), !.exitDate = Some(3),
                       !.profit = Some(0), !.updatedAt = 3]
ClosedWon == [ClosedEven EXCEPT !.exitPrice = Some(160), !.profit = Some(100)]
ClosedLost == [ClosedEven EXCEPT !.exitPrice = Some(145), !.profit = Some(-50)]

Alice ==
    [id |-> "u1", email |-> "alice@local", name |-> "alice", password |-> Absent,
     tradingStyle |-> "swing",
     preferences |-> Obj([theme |-> "dark", notifications |-> TRUE,
                          defaultCurrency |-> "USD"]),
     createdAt |-> 1, updatedAt |-> 1]
Bob == [Alice EXCEPT !.id = "u2", !.email = "bob@local", !.name = "bob"]
\* a third user under Alice's email, and Bob taking Alice's email
AliceTwin == [Alice EXCEPT !.id = "u3", !.name = "alice2"]
BobAsAlice == [Bob EXCEPT !.email = "alice@local", !.updatedAt = 2]

Tsla ==
    [id |-> Absent, symbol |-> "TSLA", name |-> Some("Tesla"),
     currentPrice |-> Some(250), addedAt |-> 1]
TslaRefreshed == [Tsla EXCEPT !.currentPrice = Some(0), !.addedAt = 2]

PriceAlert ==
    [id |-> Some("a1"), symbol |-> "TSLA", type |-> "price", condition |-> "above",
     value |-> [type |-> "number", text |-> "300"], message |-> "breakout",
     isActive |-> TRUE, createdAt |-> 1]

AlertOff == [PriceAlert EXCEPT !.isActive = FALSE, !.message = ""]
AliceLight ==
    [Alice EXCEPT !.preferences = Obj([theme |-> "light", notifications |-> FALSE,
                                       defaultCurrency |-> "USD"]),
                  !.updatedAt = 2]

DayOne == [date |-> 1, totalTrades |-> Some(3)]
DayOneAgain == [date |-> 1, totalTrades |-> Absent]

\* what new Date().toISOString() may return
Instants == {5}

\* a snapshot whose second trade repeats the id of its first
BrokenSnapshot ==
    [version |-> "1.0", exportDate |-> 4, users |-> <<Bob>>,
     trades |-> <<LaterTrade, [LaterTrade EXCEPT !.symbol = "TSLA"]>>,
     watchlist |-> <<[Tsla EXCEPT !.id = Some("w2")]>>, alerts |-> <<>>,
     performanceMetrics |-> <<>>, metrics |-> <<>>]

\* a snapshot with two users under one email
TwinSnapshot ==
    [version |-> "1.0", exportDate |-> 4, users |-> <<Alice, AliceTwin>>,
     trades |-> <<>>, watchlist |-> <<>>, alerts |-> <<>>,
     performanceMetrics |-> <<>>, metrics |-> <<>>]

\* a snapshot of the documented shape
Snapshot ==
    [version |-> "1.0", exportDate |-> 4, users |-> <<Bob>>, trades |-> <<LaterTrade>>,
     watchlist |-> <<Tsla>>, alerts |-> <<PriceAlert>>,
     performanceMetrics |-> <<DayOne>>]

\* ---------------------------------------------------------- specifications
Initialize(p) ==
    \/ InitStart(p)
    \/ PermDone(p)
    \/ ConnDone(p)
    \/ OpenDone(p)
    \/ DdlDone(p)

\* Spec: two components mount at once and each calls initialize(); the
\* engine may fail any awaited call; close() and the trade calls come in
\* between
Next ==
    \/ \E p \in Callers : Initialize(p)
    \/ \E p \in Callers : InitFail(p)
    \/ close
    \/ createTrade(FlatTrade)
    \/ getTrades(NoFilters)
    \/ deleteTrade("t1")

Spec == Init /\ [][Next]_vars

\* SpecGuard: one component initializes and the engine may fail it; the
\* whole interface is called in any order, on one record of each kind
Watched == [Tsla EXCEPT !.id = Some("w1")]

NextGuard ==
    \/ Initialize("Dashboard")
    \/ InitFail("Dashboard")
    \/ createUser(Alice)
    \/ getUser("u1")
    \/ getUserByName("alice")
    \/ getUsers
    \/ updateUser(Alice)
    \/ deleteUser("u1")
    \/ createTrade(FlatTrade)
    \/ getTrades(NoFilters)
    \/ updateTrade(WonTrade)
    \/ deleteTrade("t1")
    \/ addToWatchlist(Watched)
    \/ getWatchlist
    \/ removeFromWatchlist("TSLA")
    \/ createAlert(PriceAlert)
    \/ getAlerts
    \/ updateAlert(PriceAlert)
    \/ deleteAlert("a1")
    \/ \E now \in Instants : savePerformanceMetrics(DayOne, now)
    \/ getPerformanceMetrics(Absent, Absent)
    \/ \E now \in Instants : exportData(now)
    \/ \E now \in Instants : importData(Snapshot, now)

SpecGuard == Init /\ [][NextGuard]_vars

\* SpecStore: one component initializes, then users, watchlist items,
\* metrics and trades are written, a user is deleted, a snapshot is imported
NextStore ==
    \/ Initialize("Dashboard")
    \/ \E user \in {Alice, Bob} : createUser(user)
    \/ \E id \in {"u1", "u2"} : deleteUser(id)
    \/ createTrade(OpenTrade)
    \/ \E item \in {Tsla, TslaRefreshed} : addToWatchlist(item)
    \/ removeFromWatchlist("TSLA")
    \/ createAlert(PriceAlert)
    \/ \E metrics \in {DayOne, DayOneAgain}, now \in Instants :
           savePerformanceMetrics(metrics, now)
    \/ \E now \in Instants : importData(Snapshot, now)

SpecStore == Init /\ [][NextStore]_vars

\* SpecTrades: one component initializes, then trades are created, listed
\* under every filter, updated and deleted
TradeInputs == {OpenTrade, FlatTrade, WonTrade, LaterTrade}

FilterInputs ==
    [symbol : {Absent, Some(""), Some("AAPL")}, type : {Absent, Some("sell")},
     startDate : {Absent, Some(2)}, endDate : {Absent, Some(1)},
     limit : {Absent}, offset : {Absent}]

NextTrades ==
    \/ Initialize("Dashboard")
    \/ \E trade \in TradeInputs : createTrade(trade)
    \/ \E filters \in FilterInputs : getTrades(filters)
    \/ \E trade \in TradeInputs : updateTrade(trade)
    \/ deleteTrade("t1")

SpecTrades == Init /\ [][NextTrades]_vars

\* SpecSnapshot: one component initializes, records of every kind are
\* written, the store is exported and the snapshot imported again, a
\* snapshot that cannot be inserted whole is imported, and the users and
\* trades are read
NextSnapshot ==
    \/ Initialize("Dashboard")
    \/ \E user \in {Alice, Bob} : createUser(user)
    \/ \E trade \in {WonTrade, LaterTrade} : createTrade(trade)
    \/ addToWatchlist(Watched)
    \/ createAlert(PriceAlert)
    \/ \E now \in Instants : savePerformanceMetrics(DayOne, now)
    \/ \E now \in Instants : exportData(now)
    \/ \E now \in Instants : importExported(now)
    \/ \E now \in Instants : importData(BrokenSnapshot, now)
    \/ getUsers
    \/ getTrades(NoFilters)

SpecSnapshot == Init /\ [][NextSnapshot]_vars

\* SpecUsers: one component initializes and the engine may fail it; users
\* are created, updated, listed and imported, some under an email that is
\* taken
NextUsers ==
    \/ Initialize("Dashboard")
    \/ InitFail("Dashboard")
    \/ \E user \in {Alice, Bob, AliceTwin} : createUser(user)
    \/ \E user \in {Alice, Bob, BobAsAlice} : updateUser(user)
    \/ \E id \in {"u1", "u3"} : getUser(id)
    \/ getUsers
    \/ createTrade(OpenTrade)
    \/ \E data \in {Snapshot, TwinSnapshot}, now \in Instants : importData(data, now)

SpecUsers == Init /\ [][NextUsers]_vars

\* SpecUpdates: one component initializes; a trade, a user, an alert and a
\* watchlist item are created, updated and deleted, by keys that exist and
\* keys that do not, and the trades are listed
ByType == [NoFilters EXCEPT !.type = Some("sell")]

NextUpdates ==
    \/ Initialize("Dashboard")
    \/ \E trade \in {LaterTrade, FlatTrade} : createTrade(trade)
    \/ \E trade \in {ClosedEven, ClosedWon, ClosedLost, WonTrade, OpenTrade} :
           updateTrade(trade)
    \/ \E id \in {"t1", "t9"} : deleteTrade(id)
    \/ \E filters \in {NoFilters, ByType} : getTrades(filters)
    \/ createUser(Alice)
    \/ \E user \in {AliceLight, Bob} : updateUser(user)
    \/ createAlert(PriceAlert)
    \/ \E alert \in {AlertOff, [AlertOff EXCEPT !.id = Some("a9")]} : updateAlert(alert)
    \/ \E id \in {"a1", "a9"} : deleteAlert(id)
    \/ addToWatchlist(Watched)
    \/ \E symbol \in {"TSLA", "MSFT"} : removeFromWatchlist(symbol)

SpecUpdates == Init /\ [][NextUpdates]_vars

\* SpecJournal: one component initializes; trades are created open, edited
\* on the details page, closed on the live page, deleted and listed
Forms == [exitPrice : {Absent, Some(160)}, exitDate : {Absent, Some(3)}]

NextJournal ==
    \/ Initialize("Dashboard")
    \/ \E trade \in {OpenTrade, LaterTrade} : createTrade(trade)
    \/ \E id \in {"t2", "uuid-1"}, form \in Forms, now \in Instants :
           saveTrade(id, form, now)
    \/ \E id \in {"t2", "uuid-1"}, exitPrice \in {145, 150, 160}, now \in Instants :
           closeTrade(id, exitPrice, now)
    \/ deleteTrade("t2")
    \/ getTrades(NoFilters)

SpecJournal == Init /\ [][NextJournal]_vars

\* SpecListings: one component initializes; trades, watchlist items and
\* alerts are created under several dates, a trade is moved to another entry
\* date, and the three tables are listed, the trades by type and by page
MovedTrade == [LaterTrade EXCEPT !.entryDate = 3, !.updatedAt = 3]
Aapl == [Tsla EXCEPT !.symbol = "AAPL", !.id = Some("w1"), !.addedAt = 3]
VolumeAlert == [PriceAlert EXCEPT !.id = Absent, !.type = "volume", !.createdAt = 2]

PageInputs ==
    [symbol : {Absent}, type : {Absent, Some("sell")}, startDate : {Absent},
     endDate : {Absent}, limit : {Absent, Some(0), Some(1)},
     offset : {Absent, Some(0), Some(1)}]

NextListings ==
    \/ Initialize("Dashboard")
    \/ \E trade \in {FlatTrade, LaterTrade} : createTrade(trade)
    \/ updateTrade(MovedTrade)
    \/ \E filters \in PageInputs : getTrades(filters)
    \/ \E item \in {Watched, Aapl} : addToWatchlist(item)
    \/ getWatchlist
    \/ \E alert \in {PriceAlert, [VolumeAlert EXCEPT !.id = Some("a2")]} :
           createAlert(alert)
    \/ getAlerts

SpecListings == Init /\ [][NextListings]_vars

\* SpecKeys: one component initializes; trades, watchlist items and alerts
\* are created with an id and without, some under an id that is taken
NextKeys ==
    \/ Initialize("Dashboard")
    \/ \E trade \in {OpenTrade, LaterTrade, MovedTrade} : createTrade(trade)
    \/ \E item \in {Tsla, Aapl} : addToWatchlist(item)
    \/ \E alert \in {PriceAlert, AlertOff} : createAlert(alert)

SpecKeys == Init /\ [][NextKeys]_vars

\* SpecMarket: prices are asked for, several at a time, the providers
\* answer or fail, and time passes
Prices == {101, 102}

NextMarket ==
    \/ \E c \in Calls, symbol \in Symbols : getRealTimePrice(c, symbol)
    \/ \E c \in Calls : timerFired(c)
    \/ \E c \in Calls, price \in Prices : responded(c, price)
    \/ \E c \in Calls : failed(c)
    \/ tick

SpecMarket == Init /\ [][NextMarket]_vars

\* SpecContext: the provider mounts with or without a saved user and loads
\* it, createConnection failing or not; users sign up, two at a time too,
\* log out, change their preferences and their record
NextContext ==
    \/ \E saved \in {Absent, Some(Alice)} : mount(saved)
    \/ Awaiting /\ Initialize("UserProvider")
    \/ (Awaiting /\ pc["UserProvider"] = "conn") /\ InitFail("UserProvider")
    \/ loadUser
    \/ \E s \in Signups, username \in {"alice", "bob"} : signup(s, username)
    \/ \E s \in Signups, now \in Instants : usersChecked(s, now)
    \/ \E s \in Signups : userCreated(s)
    \/ logout
    \/ handleLogout
    \/ updatePreferences([theme |-> "light"])
    \/ \E now \in Instants : contextUpdateUser("swing", now)
    \/ userUpdated

SpecContext == Init /\ [][NextContext]_vars

\* SpecStartup: the provider mounts with or without a saved user, the
\* store initializes or fails at any of its awaits, and loadUser goes on;
\* every promise that is awaited settles
NextStartup ==
    \/ \E saved \in {Absent, Some(Alice), Some(Bob)} : mount(saved)
    \/ Awaiting /\ Initialize("UserProvider")
    \/ Awaiting /\ InitFail("UserProvider")
    \/ loadUser

SpecStartup == Init /\ [][NextStartup]_vars /\ WF_vars(NextStartup)
\* ------------------------------------------------------------------ claims
\* the calls of the store other than initialize and close
StoreOps ==
    {"createUser", "getUser", "getUserByName", "getUsers", "updateUser", "deleteUser",
     "createTrade", "getTrades", "updateTrade", "deleteTrade", "addToWatchlist",
     "getWatchlist", "removeFromWatchlist", "createAlert", "getAlerts", "updateAlert",
     "deleteAlert", "savePerformanceMetrics", "getPerformanceMetrics", "exportData",
     "importData"}

\* C1: a store operation called while no initialize() has completed
\* successfully fails (with the not-initialized error, or at the least with
\* an error) and changes no stored row, also after an initialize() that
\* failed once the connection object existed.
C1_NoOperationBeforeInitialize ==
    [][(~ isInitialized /\ outcome'.op \in StoreOps)
         => (outcome'.status \in {NotInitialized, EngineError}
             /\ tables' = tables)]_vars

\* C2: a call of initialize() that starts when the store is initialized
\* returns at once: it creates no connection, executes no CREATE statement
\* and leaves the handle and the engine as they are.
C2_InitializeIdempotent ==
    [][\A p \in Callers :
         (isInitialized /\ pc[p] = "idle" /\ outcome'.op = "initialize"
          /\ outcome'.arg = p)
         => (outcome'.status = Ok /\ outcome'.value = "skipped"
             /\ UNCHANGED <<pc, db, isInitialized, opened, schema, createConnCalls,
                            schemaRuns>>)]_vars

\* C2 witness: after one connection and one schema creation, a further
\* initialize() has been skipped.
C2_Witness ==
    /\ outcome.op = "initialize" /\ outcome.value = "skipped"
    /\ createConnCalls = 1 /\ schemaRuns = 1

\* C3: after close() has completed on an initialized store, with no
\* initialize() in flight, the next store operation fails with the
\* not-initialized error and the next initialize() is not skipped.
C3_CloseResets ==
    [][(/\ outcome.op = "close" /\ outcome.status = Ok /\ outcome.arg = TRUE
        /\ \A p \in Callers : pc[p] = "idle")
         => /\ outcome'.op \in StoreOps => outcome'.status = NotInitialized
            /\ outcome'.op = "initialize" => outcome'.value # "skipped"]_vars

\* C4: the guard of initialize() is a check-then-act: a call that passes the
\* guard leaves isInitialized FALSE, and isInitialized becomes TRUE only when
\* the last statement of a call's createTables has resolved; so a second call
\* that starts in between passes the guard too.
C4_CheckThenAct ==
    [][/\ \A p \in Callers : (pc[p] = "idle" /\ pc'[p] # "idle") => ~ isInitialized'
       /\ (isInitialized' /\ ~ isInitialized)
            => \E p \in Callers : /\ pc[p] = "ddl" /\ pc'[p] = "idle"
                                  /\ ddlIdx[p] = Len(Ddl(impl))]_vars

\* C4 witness: two initialize() calls overlapped: isInitialized is never
\* reset in Ext, so a second complete schema creation means the second call
\* passed the guard before the first set the flag; createConnection ran
\* twice and every CREATE statement ran twice.
C4_Witness ==
    /\ impl = Ext /\ createConnCalls = 2 /\ schemaRuns = 2
    /\ \A p \in Callers : pc[p] = "idle"

\* a record getTrades returned equals the trade passed to createTrade in
\* every supplied field; omitted optional fields are null, omitted tags []
ReadsBackAs(read, trade) ==
    /\ trade.id # Absent => read.id = trade.id[1]
    /\ read.symbol = trade.symbol /\ read.type = trade.type
    /\ read.entryPrice = trade.entryPrice /\ read.quantity = trade.quantity
    /\ read.entryDate = trade.entryDate
    /\ read.exitPrice = trade.exitPrice /\ read.exitDate = trade.exitDate
    /\ read.profit = trade.profit /\ read.notes = trade.notes
    /\ read.tags = (IF trade.tags = Absent THEN Arr(<<>>) ELSE trade.tags[1])
    /\ read.createdAt = trade.createdAt /\ read.updatedAt = trade.updatedAt

\* C5: createTrade(t) followed by getTrades() with no filters returns a
\* record equal to t in every supplied field (a value of 0 included), with a
\* generated id where t has none and [] for absent tags.
C5_CreateThenRead ==
    [][(/\ outcome.op = "createTrade" /\ outcome.status = Ok
        /\ outcome'.op = "getTrades" /\ outcome'.status = Ok
        /\ outcome'.arg = NoFilters)
         => \E k \in DOMAIN outcome'.value :
               /\ outcome'.value[k].id = outcome.value
               /\ ReadsBackAs(outcome'.value[k], outcome.arg)]_vars

\* the stored trades, as getTrades returns them, that satisfy the filters
\* under a reading of which filters are supplied
Range(seq) == {seq[k] : k \in DOMAIN seq}

Selected(filters, symbolGiven, typeGiven, startGiven, endGiven) ==
    {tradeFromRow(r) : r \in
        {x \in trades :
            /\ symbolGiven => x.symbol = filters.symbol[1]
            /\ typeGiven => x.type = filters.type[1]
            /\ startGiven => x.entryDate >= filters.startDate[1]
            /\ endGiven => x.entryDate <= filters.endDate[1]}}

Unpaged(filters) == filters.limit = Absent /\ filters.offset = Absent

\* C6 as amended: getTrades(filters) without limit and offset returns exactly
\* the stored trades that satisfy the predicates of the filters supplied, a
\* filter that is omitted or empty ('') imposing no constraint.
C6_FilterExactUnlessEmpty ==
    (outcome.op = "getTrades" /\ outcome.status = Ok /\ Unpaged(outcome.arg))
      => LET f == outcome.arg
             expected == Selected(f, f.symbol \notin {Absent, Some("")},
                                  f.type \notin {Absent, Some("")},
                                  f.startDate \notin {Absent, Some(0)},
                                  f.endDate \notin {Absent, Some(0)})
         IN /\ Range(outcome.value) = expected
            /\ Len(outcome.value) = Cardinality(expected)

\* C6 as claimed: every filter that is not omitted constrains the result.
C6_FilterExact ==
    (outcome.op = "getTrades" /\ outcome.status = Ok /\ Unpaged(outcome.arg))
      => LET f == outcome.arg
             expected == Selected(f, f.symbol # Absent, f.type # Absent,
                                  f.startDate # Absent, f.endDate # Absent)
         IN /\ Range(outcome.value) = expected
            /\ Len(outcome.value) = Cardinality(expected)

\* C6 witness: a listing by symbol and end date that returned the one trade
\* dated on the bound and left the other stored trades out.
C6_Witness ==
    /\ outcome.op = "getTrades" /\ outcome.status = Ok
    /\ outcome.arg.symbol = Some("AAPL") /\ outcome.arg.endDate = Some(1)
    /\ outcome.arg.type = Absent /\ outcome.arg.startDate = Absent
    /\ Len(outcome.value) = 1 /\ outcome.value[1].entryDate = 1
    /\ Cardinality(trades) > 2

\* C7: the watchlist holds at most one row per symbol.
C7_OneRowPerSymbol ==
    \A a, b \in watchlist : a.symbol = b.symbol => a = b

\* C8: performance_metrics holds at most one row per date, and after a save
\* the row of that date carries the saved values.
C8_UpsertByDate ==
    /\ \A a, b \in performance_metrics : a.date = b.date => a = b
    /\ (outcome.op = "savePerformanceMetrics" /\ outcome.status = Ok)
         => \A r \in performance_metrics :
               r.date = outcome.arg.date => r.id = outcome.value

\* C9: deleteUser(id) removes the user, leaves the other users as they are,
\* and removes the rows of the other tables that belong to the user: a row
\* written while the user was the only stored user is the user's.
C9_DeleteUserCascades ==
    [][(outcome'.op = "deleteUser" /\ outcome'.status = Ok)
         => /\ users' = {u \in users : u.id # outcome'.arg}
            /\ (/\ outcome.op \in {"createTrade", "addToWatchlist", "createAlert",
                                   "savePerformanceMetrics"}
                /\ outcome.status = Ok
                /\ users # {} /\ \A u \in users : u.id = outcome'.arg)
                 => \A r \in trades' \cup watchlist' \cup alerts'
                                  \cup performance_metrics' :
                       r.id # outcome.value]_vars

\* C10: after a successful importData(snapshot) of a snapshot of the
\* documented shape, each table holds exactly the records of the snapshot's
\* array for it.
C10_ImportReplaces ==
    (outcome.op = "importData" /\ outcome.status = Ok)
      => LET data == outcome.arg
         IN /\ {r.id : r \in users} = {x.id : x \in Range(data.users)}
            /\ Cardinality(trades) = Len(data.trades)
            /\ \A k \in DOMAIN data.trades :
                   \E r \in trades : ReadsBackAs(tradeFromRow(r), data.trades[k])
            /\ {r.symbol : r \in watchlist} = {x.symbol : x \in Range(data.watchlist)}
            /\ Cardinality(watchlist) = Len(data.watchlist)
            /\ {r.id : r \in alerts} = {x.id[1] : x \in Range(data.alerts)}
            /\ {r.date : r \in performance_metrics}
                   = {x.date : x \in Range(data.performanceMetrics)}
            /\ Cardinality(performance_metrics) = Len(data.performanceMetrics)
\* the number of rows of each of the five tables
RowCounts(u, t, w, a, m) ==
    <<Cardinality(u), Cardinality(t), Cardinality(w), Cardinality(a), Cardinality(m)>>

\* C11: importData(s) of the snapshot s that exportData() has just returned
\* succeeds and leaves in each of the five tables the number of rows the
\* table held when it was exported (importData empties the tables first, so
\* the importing store is an empty one when the records are inserted).
C11_ExportImportCounts ==
    [][(/\ outcome.op = "exportData" /\ outcome.status = Ok
        /\ outcome'.op = "importData"
        /\ outcome'.arg = exportedArguments(impl, outcome.value))
         => /\ outcome'.status = Ok
            /\ RowCounts(users', trades', watchlist', alerts', performance_metrics')
                 = RowCounts(users, trades, watchlist, alerts, performance_metrics)]_vars

\* C11 witness: a snapshot of a store with rows in all five tables has been
\* imported.
C11_Witness ==
    /\ outcome.op = "importData" /\ outcome.status = Ok
    /\ outcome.arg \notin {Snapshot, BrokenSnapshot}
    /\ Len(outcome.arg.users) = 2 /\ Len(outcome.arg.trades) = 2
    /\ Len(outcome.arg.watchlist) = 1 /\ Len(outcome.arg.alerts) = 1
    /\ RowCounts(users, trades, watchlist, alerts, performance_metrics)
         = <<2, 2, 1, 1, 1>>
\* two composites are the same value: of the same kind, with the same content
SameValue(a, b) == a.kind = b.kind /\ a.v = b.v

\* every trade of t is read from t2 with the same tags, every user of u from
\* u2 with the same preferences
TagsKept(t, t2) ==
    \A r \in t : \E r2 \in t2 :
        r2.id = r.id /\ SameValue(tradeFromRow(r2).tags, tradeFromRow(r).tags)
PreferencesKept(u, u2) ==
    \A r \in u : \E r2 \in u2 :
        /\ r2.id = r.id
        /\ SameValue(userFromRow(r2).preferences, userFromRow(r).preferences)

\* C12: the snapshot exportData() returns carries the tags of every trade as
\* a list and the preferences of every user as an object, and after the
\* snapshot is imported every trade is read with the tags and every user
\* with the preferences it was read with before the export.
C12_EncodingSymmetric ==
    [][/\ (outcome'.op = "exportData" /\ outcome'.status = Ok)
            => /\ \A k \in DOMAIN outcome'.value.trades :
                      outcome'.value.trades[k].tags.kind = "array"
               /\ \A k \in DOMAIN outcome'.value.users :
                      outcome'.value.users[k].preferences.kind = "object"
       /\ (/\ outcome.op = "exportData" /\ outcome.status = Ok
           /\ outcome'.op = "importData" /\ outcome'.status = Ok
           /\ outcome'.arg = exportedArguments(impl, outcome.value))
            => /\ TagsKept(trades, trades')
               /\ PreferencesKept(users, users')]_vars
\* the rows the records of a snapshot array are stored as, the records
\* carrying their ids
UsersOf(data) == {userValues(data.users[k]) : k \in DOMAIN data.users}
TradesOf(data) ==
    {tradeValues(impl, data.trades[k], data.trades[k].id[1]) : k \in DOMAIN data.trades}
WatchlistOf(data) ==
    {watchlistValues(impl, data.watchlist[k], data.watchlist[k].id[1]) :
        k \in DOMAIN data.watchlist}

\* C13: when the tables exist and one of the inserts of importData is
\* rejected, importData fails and the store holds only records of the
\* snapshot: all those of the arrays before the failing one, fewer than all
\* of the failing one, none of the arrays after it; no row from before the
\* call is left.
C13_ImportNotAtomic ==
    [][(outcome'.op = "importData" /\ outcome'.status # Ok /\ AllTablesReady)
         => LET data == outcome'.arg
            IN /\ outcome'.status = EngineError
               /\ users' \subseteq UsersOf(data)
               /\ trades' \subseteq TradesOf(data)
               /\ watchlist' \subseteq WatchlistOf(data)
               /\ alerts' = {} /\ performance_metrics' = {}
               /\ trades' # {} => users' = UsersOf(data)
               /\ watchlist' # {} => trades' = TradesOf(data)
               /\ watchlist' # WatchlistOf(data)]_vars

\* C13 witness: an import failed at the second trade of the snapshot, with
\* the snapshot's user and first trade stored and the watchlist left empty.
C13_Witness ==
    /\ outcome.op = "importData" /\ outcome.status = EngineError
    /\ outcome.arg = BrokenSnapshot /\ AllTablesReady
    /\ users = UsersOf(BrokenSnapshot)
    /\ Cardinality(trades) = 1 /\ trades \subseteq TradesOf(BrokenSnapshot)
    /\ watchlist = {}
\* C14: no two rows of the users table have the same email.
C14_EmailUnique ==
    \A a, b \in users : a.email = b.email => a = b

\* C14 witness: with two users stored, an updateUser that gives one the
\* email of the other has been rejected.
C14_Witness ==
    /\ outcome.op = "updateUser" /\ outcome.status = EngineError
    /\ outcome.arg = BobAsAlice
    /\ {r.id : r \in users} = {"u1", "u2"}
    /\ \A r \in users : r.id = "u2" => r.email = "bob@local"

\* C15: createUser with an email that a stored user has fails with an error
\* and leaves the users table, and every other table, as it was.
C15_DuplicateEmailRejected ==
    [][(outcome'.op = "createUser"
        /\ \E r \in users : r.email = outcome'.arg.email)
         => /\ outcome'.status = EngineError
            /\ users' = users
            /\ UNCHANGED <<trades, watchlist, alerts, performance_metrics>>]_vars

\* C15 witness: createUser for a new id under the email of a stored user has
\* failed, the stored user still in place.
C15_Witness ==
    /\ outcome.op = "createUser" /\ outcome.status = EngineError
    /\ outcome.arg = AliceTwin
    /\ \E r \in users : r.id = "u1" /\ r.email = "alice@local"
    /\ \A r \in users : r.id # "u3"
\* C16: an operation whose engine call fails reports an error: a store
\* operation called on a closed connection does not return normally, and
\* neither does a close() whose engine call threw.
C16_FailuresReported ==
    [][/\ (outcome'.op \in StoreOps /\ ~ opened) => outcome'.status # Ok
       /\ (outcome'.op = "close" /\ outcome'.value = "threw")
            => outcome'.status # Ok]_vars
\* C17: updateTrade, updateUser or updateAlert applied a second time with
\* the same record leaves every table as the first application left it, and
\* ends as the first did.
C17_UpdateIdempotent ==
    [][(/\ outcome.op \in {"updateTrade", "updateUser", "updateAlert"}
        /\ outcome'.op = outcome.op
        /\ outcome'.arg = outcome.arg)
         => /\ outcome'.status = outcome.status
            /\ tables' = tables]_vars

\* C17 witness: updateTrade has rewritten a stored trade, which now carries
\* the values of the record; the same update can be applied again.
C17_Witness ==
    /\ outcome.op = "updateTrade" /\ outcome.status = Ok /\ outcome.arg = ClosedWon
    /\ \E r \in trades : r.id = "t2" /\ r.profit = Some(100) /\ r.updatedAt = 3
\* a trade as it is read has in every mutable column the value of the record
MutableColumnsAs(read, trade) ==
    /\ read.symbol = trade.symbol /\ read.type = trade.type
    /\ read.entryPrice = trade.entryPrice /\ read.quantity = trade.quantity
    /\ read.entryDate = trade.entryDate
    /\ read.exitPrice = trade.exitPrice /\ read.exitDate = trade.exitDate
    /\ read.profit = trade.profit /\ read.notes = trade.notes
    /\ SameValue(read.tags, IF trade.tags = Absent THEN Arr(<<>>) ELSE trade.tags[1])
    /\ read.updatedAt = trade.updatedAt

\* C18: a successful updateTrade(t) on a store that has a row with t.id
\* leaves that row with every mutable column equal to the value in t, its id
\* and createdAt as they were, and every other row of every table as it
\* was; when no row has t.id, nothing changes.
C18_UpdateOverwrites ==
    [][(outcome'.op = "updateTrade" /\ outcome'.status = Ok)
         => LET t == outcome'.arg
            IN /\ UNCHANGED <<users, watchlist, alerts, performance_metrics>>
               /\ {r.id : r \in trades'} = {r.id : r \in trades}
               /\ \A r \in trades : \E r2 \in trades' :
                     /\ r2.id = r.id
                     /\ IF Some(r.id) = t.id
                        THEN /\ r2.createdAt = r.createdAt
                             /\ MutableColumnsAs(tradeFromRow(r2), t)
                        ELSE r2 = r]_vars
\* C19: on an initialized store, deleteTrade or deleteAlert with an id that
\* no row has, and removeFromWatchlist with a symbol that no row has, raise
\* no error and leave every table as it was.
C19_DeleteUnknownKey ==
    [][(/\ isInitialized /\ AllTablesReady
        /\ \/ outcome'.op = "deleteTrade" /\ \A r \in trades : r.id # outcome'.arg
           \/ outcome'.op = "deleteAlert" /\ \A r \in alerts : r.id # outcome'.arg
           \/ /\ outcome'.op = "removeFromWatchlist"
              /\ \A r \in watchlist : r.symbol # outcome'.arg)
         => /\ outcome'.status = Ok
            /\ tables' = tables]_vars

\* C19 witness: with a trade stored, deleteTrade of an id that no trade has
\* has returned normally.
C19_Witness ==
    /\ outcome.op = "deleteTrade" /\ outcome.status = Ok /\ outcome.arg = "t9"
    /\ trades # {} /\ alerts # {} /\ watchlist # {}
\* the record of the array with the id
ReadWithId(array, id) == {array[k] : k \in {j \in DOMAIN array : array[j].id = id}}

\* C20: a trade created without exit fields is listed with exitDate and
\* profit absent; updateTrade on a stored trade with exitPrice, exitDate and
\* profit set leaves the number of trades as it was, and getTrades({type})
\* then lists the trade once, under the same id, with the exitPrice,
\* exitDate and profit of the update, whatever the profit (0 included).
C20_CloseKeepsOneRecord ==
    [][/\ (/\ outcome.op = "createTrade" /\ outcome.status = Ok
           /\ outcome.arg.exitDate = Absent /\ outcome.arg.profit = Absent
           /\ outcome'.op = "getTrades" /\ outcome'.status = Ok
           /\ outcome'.arg = NoFilters)
            => /\ ReadWithId(outcome'.value, outcome.value) # {}
               /\ \A read \in ReadWithId(outcome'.value, outcome.value) :
                      read.exitDate = Absent /\ read.profit = Absent
       /\ (outcome'.op = "updateTrade" /\ outcome'.status = Ok)
            => Cardinality(trades') = Cardinality(trades)
       /\ (/\ outcome.op = "updateTrade" /\ outcome.status = Ok
           /\ outcome.arg.exitDate # Absent /\ outcome.arg.profit # Absent
           /\ \E r \in trades : Some(r.id) = outcome.arg.id
           /\ outcome'.op = "getTrades" /\ outcome'.status = Ok
           /\ outcome'.arg = [NoFilters EXCEPT !.type = Some(outcome.arg.type)])
            => /\ Cardinality(ReadWithId(outcome'.value, outcome.arg.id[1])) = 1
               /\ \A read \in ReadWithId(outcome'.value, outcome.arg.id[1]) :
                      /\ read.exitPrice = outcome.arg.exitPrice
                      /\ read.exitDate = outcome.arg.exitDate
                      /\ read.profit = outcome.arg.profit]_vars
\* C21: every stored trade is open (no exit date) or closed (an exit date
\* and a profit): no trade has an exit date and no profit.
C21_OpenOrClosed ==
    \A r \in trades : TruthyNum(r.exitDate) => r.profit # Absent
\* a listing is in non-increasing order of a column
Descending(seq, column) ==
    \A i, j \in DOMAIN seq : i < j => seq[i][column] >= seq[j][column]

Ids(table) == {r.id : r \in table}

OneRowPerId(table) == \A r1, r2 \in table : r1.id = r2.id => r1 = r2

\* the table a create operation inserts into
TableOf(op, st) ==
    IF op = "createTrade" THEN st.trades
    ELSE IF op = "createAlert" THEN st.alerts ELSE st.watchlist

C26_OffsetWithoutLimit ==
    [][(isInitialized /\ outcome'.op = "getTrades")
         => /\ outcome'.status = Ok
            /\ ~ TruthyNum(outcome'.arg.limit)
                 => Len(outcome'.value) + (IF TruthyNum(outcome'.arg.offset)
                                           THEN outcome'.arg.offset[1] ELSE 0)
                      >= Cardinality({r \in trades : tradeMatches(r, outcome'.arg)})]_vars
\* the key of a call's symbol holds a response stored less than
\* cacheTimeout ago
Fresh(symbol) ==
    /\ cache[cacheKey(symbol)] # Absent
    /\ clock - cache[cacheKey(symbol)][1].timestamp < cacheTimeout

Requests == [name \in DOMAIN providers |-> Len(sent[name])]

\* C24: a getRealTimePrice call whose key holds a response stored less than
\* 30000 ms ago returns that response and sends no request; any other call
\* goes on to a request; the cache changes only when a request succeeds, the
\* entry of that call's key then holding the response and the current time.
C24_CachePerKey ==
    [][/\ (outcome'.op = "getRealTimePrice" /\ calls' = calls /\ clock' = clock)
            => /\ Fresh(outcome'.arg)
               /\ outcome'.value = [data |-> cache[cacheKey(outcome'.arg)][1].data,
                                    from |-> "cache"]
               /\ UNCHANGED <<cache, sent>>
       /\ \A c \in Calls :
            (calls[c].pc = "idle" /\ calls'[c].pc # "idle")
              => ~ Fresh(calls'[c].symbol)
       /\ \A c \in Calls :
            (calls[c].pc \in {"idle", "setTimeout"} /\ calls'[c].pc = "request")
              => Requests'[selectBestProvider(calls'[c].symbol)]
                   = Requests[selectBestProvider(calls'[c].symbol)] + 1
       /\ cache' # cache
            => \E c \in Calls :
                  /\ calls[c].pc = "request" /\ calls'[c].pc = "idle"
                  /\ outcome'.status = Ok
                  /\ cache' = [cache EXCEPT ![cacheKey(calls[c].symbol)] =
                                  Some([data |-> outcome'.value.data,
                                        timestamp |-> clock])]
       /\ outcome'.status = RequestError => cache' = cache]_vars
\* C24 witness: a call was served from the cache one millisecond before the
\* entry expired, after the one request that filled it.
C24_Witness ==
    /\ outcome.op = "getRealTimePrice" /\ outcome.status = Ok
    /\ outcome.value.from = "cache"
    /\ clock - cache[cacheKey(outcome.arg)][1].timestamp = cacheTimeout - 1
    /\ Requests[selectBestProvider(outcome.arg)] = 1

\* C25: any two requests sent to one provider start at least
\* 60000 / rateLimit milliseconds apart, under every interleaving of calls.
C25_RateGate ==
    \A name \in DOMAIN providers :
        \A i, j \in DOMAIN sent[name] :
            i < j => sent[name][j] - sent[name][i] >= minInterval(name)
\* C27: in every state of the user context isAuthenticated is true exactly
\* when user is non-null, so the pages under ProtectedRoute are rendered
\* only while a user record is present.
C27_AuthenticatedIffUser ==
    /\ state.isAuthenticated <=> state.user # Absent
    /\ Protected => state.user # Absent

\* C27 witness: a user signed up and logged out, and another user signed up.
C27_Witness ==
    /\ state.isAuthenticated /\ state.user # Absent
    /\ state.user[1].id = "uuid-2" /\ ~ state.isLoading
\* C28: signup never stores two users of one name; a signup that found a
\* user of its name fails with 'Username already taken', inserts no row and
\* leaves state.user as it is; every signup that fails ends with isLoading
\* false and error set to the message of the failure; a signup that succeeds
\* ends with user set, isAuthenticated true, error null and isLoading false.
C28_SignupUniqueName ==
    [][/\ \A u1, u2 \in users' : u1.name = u2.name => u1 = u2
       /\ \A s \in Signups :
            /\ (signups[s].pc = "idle" /\ signups'[s].pc = "getUsers")
                 => (signups'[s].taken
                       <=> \E u \in users : u.name = signups'[s].name)
            /\ (signups[s].pc = "getUsers" /\ signups'[s].pc # "getUsers"
                /\ signups[s].taken)
                 => /\ outcome' = Result("signup", "Username already taken",
                                         signups[s].name, <<>>)
                    /\ tables' = tables /\ state'.user = state.user
       /\ (outcome'.op = "signup" /\ outcome'.status \notin {Ok, Pending})
            => /\ ~ state'.isLoading /\ state'.error = Some(outcome'.status)
               /\ state'.user = state.user
       /\ (outcome'.op = "signup" /\ outcome'.status = Ok)
            => /\ state'.user = outcome'.value /\ state'.user # Absent
               /\ state'.user[1].name = outcome'.arg
               /\ state'.isAuthenticated /\ state'.error = Absent
               /\ ~ state'.isLoading
               /\ \E u \in users' : u.id = state'.user[1].id /\ u.name = outcome'.arg]_vars

\* C28 witness: after a logout, a signup under the name of the stored user
\* has failed with 'Username already taken'; one row is stored and nobody is
\* logged in.
C28_Witness ==
    /\ outcome.op = "signup" /\ outcome.status = "Username already taken"
    /\ state.error = Some("Username already taken") /\ ~ state.isLoading
    /\ state.user = Absent /\ Cardinality(users) = 1
    /\ \E u \in users : u.name = outcome.arg

\* C29: the start-up load ends, with isLoading false, whether initialize()
\* returns or throws; it leaves a user authenticated only if the store has a
\* row of that id; a saved user without a row is removed from localStorage
\* and nobody is authenticated; after a failed initialize() nobody is
\* authenticated and error is set.
C29_LoadEnds ==
    /\ <>(loader.pc = "done")
    /\ [](loader.pc = "done"
           => /\ ~ state.isLoading
              /\ state.isAuthenticated => \E r \in users : r.id = state.user[1].id
              /\ (loader.saved # Absent /\ \A r \in users : r.id # loader.saved[1].id)
                   => (localStorage = Absent /\ ~ state.isAuthenticated)
              /\ (outcome.op = "loadUser" /\ outcome.status # Ok)
                   => (~ state.isAuthenticated /\ state.error # Absent))

\* C29 witness: the page held a saved user, the store initialized and has no
\* row of it; the load is over, the item is gone, nobody is authenticated.
C29_Witness ==
    /\ loader.pc = "done" /\ loader.saved = Some(Alice) /\ isInitialized
    /\ outcome.op = "loadUser" /\ outcome.status = Ok
    /\ localStorage = Absent /\ ~ state.isAuthenticated /\ ~ state.isLoading
    /\ state.error = Absent
====
